---- MODULE Spec2Model ----
(***************************************************************************)
(* State-machine model of the OpenDRIVE -> Lanelet2 conversor              *)
(* (src/odr2lanelet2.py), its lane-graph provider (src/opendrive/          *)
(* odr_map.py) and its mesh (src/lanelet2/lanelet2_map.py).                *)
(*                                                                         *)
(* A segment is a tuple <<road_id, section_id, lane_id>>.  A waypoint of   *)
(* the provider is identified with the segment it lies on.  A Point object *)
(* is identified with its uid (add_point returns point.uid and never       *)
(* replaces a stored point).                                               *)
(***************************************************************************)
EXTENDS Integers, Sequences, FiniteSets, TLC

VARIABLES
    waypoints,            \* OdrMap._waypoints (its keys)
    topology,             \* OdrMap._topology
    is_junction,          \* provider snapshot: waypoint.is_junction per segment
    ref_border,           \* provider snapshot: sampled intermediate points per side
    crosswalks,           \* provider snapshot: number of crosswalks
    traffic_lights,       \* provider snapshot: sequence of traffic lights
    uid,                  \* Odr2Lanelet2Conversor._uid
    points,               \* Lanelet2Map._points
    linestrings,          \* Lanelet2Map._linestrings
    lanelets,             \* Lanelet2Map._lanelets
    regulatory_elements,  \* Lanelet2Map._regulatory_elements
    odr2lanelet,          \* Odr2Lanelet2Conversor._odr2lanelet
    pc,                   \* position inside __call__
    roads_todo,           \* roads the current map() has not yet visited
    lanes_todo,           \* segments the current road still has to convert
    idx,                  \* enumerate() index inside the current section
    last_edges,           \* local last_edges of _convert_road_to_lanelets
    last_linestrings,     \* local last_linestrings
    last_lane_id,         \* local last_lane_id
    segment,              \* segment converted by the last loop iteration
    link,                 \* pre, succ returned by _get_link_points for it
    branch,               \* which branch of the Mesh Builder built it
    adjacent,             \* the last _is_adjacent call: lane ids and answer
    crosswalks_todo,      \* crosswalks still to convert
    lights_todo,          \* traffic lights still to convert
    landmark_seen,        \* landmark segments handled in this call
    order,                \* roads in the order this call converted them
    calls,                \* number of __call__ invocations so far
    fresh,                \* TRUE when the current conversor object is new
    returned,             \* the maps returned so far, oldest first
    warnings,             \* segments validate() has logged a warning for
    sampled,              \* border locations handed to the Border Sampler
    reference,            \* ltransforms, rtransforms it returned for them
    marking,              \* left / right lane marking type of the start waypoints
    saved                 \* the elements save() wrote for the mesh

vars == <<waypoints, topology, is_junction, ref_border, crosswalks, traffic_lights,
          uid, points, linestrings, lanelets, regulatory_elements, odr2lanelet,
          pc, roads_todo, lanes_todo, idx, last_edges, last_linestrings,
          last_lane_id, segment, link, branch, crosswalks_todo, lights_todo,
          landmark_seen, order, calls, fresh, returned, adjacent, warnings,
          sampled, reference, marking, saved>>

snapshot == <<waypoints, topology, is_junction, ref_border, marking>>
mesh == <<points, linestrings, lanelets, regulatory_elements>>
sampler == <<sampled, reference>>
locals == <<lanes_todo, idx, last_edges, last_linestrings, last_lane_id,
            segment, link, branch, adjacent>>

----------------------------------------------------------------------------
(* Bounds of the model *)

MaxLinks == 2        \* links between different roads in the lane graph
MaxRef == 1          \* intermediate points the Border Sampler emits per lane
MaxBoxes == 1        \* light boxes per traffic light
MaxLandmarks == 1    \* landmark waypoints per traffic light
MaxCalls == 2        \* calls of the conversor in the re-run specification
MaxLane == 3         \* lane-id magnitude in the adjacency specification
MaxSamples == 2      \* waypoints the loop of the Border Sampler goes through
MaxExtra == 1        \* links drawn in addition to a split of one lane into two

None == -1           \* Python None (never a uid: uids are counted up from 0)

\* Segments that start a lane (the wp side of a topology pair).
RoadOne == { <<1, 0, -1>>, <<1, 0, 1>>, <<1, 0, 2>> }
RoadTwo == { <<2, 0, -2>>, <<2, 0, -1>> }
StartSegments == RoadOne \cup RoadTwo

\* A segment that only ever appears as a successor.
SinkSegment == <<3, 0, -1>>

Segments == StartSegments \cup {SinkSegment}

\* A segment no topology pair mentions (e.g. a sidewalk lane).
OffGraphSegment == <<1, 0, 3>>

----------------------------------------------------------------------------
(* Helpers on sequences and sets *)

Range(s) == { s[i] : i \in 1..Len(s) }

Reverse(s) == [ i \in 1..Len(s) |-> s[Len(s) + 1 - i] ]

Last(s) == s[Len(s)]

RECURSIVE SortedInts(_)
SortedInts(S) ==
    IF S = {} THEN <<>>
    ELSE LET m == CHOOSE x \in S : \A y \in S : x <= y
         IN  <<m>> \o SortedInts(S \ {m})

SegLess(a, b) ==
    \/ a[1] < b[1]
    \/ a[1] = b[1] /\ a[2] < b[2]
    \/ a[1] = b[1] /\ a[2] = b[2] /\ a[3] < b[3]

RECURSIVE SortedSegs(_)
SortedSegs(S) ==
    IF S = {} THEN <<>>
    ELSE LET m == CHOOSE x \in S : \A y \in S \ {x} : SegLess(x, y)
         IN  <<m>> \o SortedSegs(S \ {m})

\* Python truthiness of an int-or-None ("if point:").
Truthy(x) == x # None /\ x # 0

----------------------------------------------------------------------------
(* Lane-graph provider: src/opendrive/odr_map.py *)

\* OdrMap._create_waypoints: the keys of self._waypoints.
CreateWaypoints(topo) == { topo[i][1] : i \in 1..Len(topo) }

\* OdrMap._create_topology: segment -> (predecessor wps, successor wps).
CreateTopology(topo) ==
    LET keys == { topo[i][1] : i \in 1..Len(topo) } \cup
                { topo[i][2] : i \in 1..Len(topo) }
        Succ(s) == SelectSeq(topo, LAMBDA p : p[1] = s)
        Pred(s) == SelectSeq(topo, LAMBDA p : p[2] = s /\ p[1] # s)
    IN  [ s \in keys |->
            [ pred |-> [ i \in 1..Len(Pred(s)) |-> Pred(s)[i][1] ],
              succ |-> [ i \in 1..Len(Succ(s)) |-> Succ(s)[i][2] ] ] ]

get_roads == { s[1] : s \in waypoints }

get_std_roads == { s[1] : s \in { w \in waypoints : ~is_junction[w] } }

\* Junction paths that are all the roads, whatever their waypoints say.
paths_unfiltered == { s[1] : s \in waypoints }

get_paths == { s[1] : s \in { w \in waypoints : is_junction[w] } }

get_sections(road_id) ==
    SortedInts({ s[2] : s \in { w \in waypoints : w[1] = road_id } })

get_lanes(road_id, section_id) ==
    SortedInts({ s[3] : s \in { w \in waypoints :
                                  w[1] = road_id /\ w[2] = section_id } })

get_waypoint_predecessors(seg) ==
    IF seg \notin DOMAIN topology THEN <<>> ELSE topology[seg].pred

get_waypoint_successors(seg) ==
    IF seg \notin DOMAIN topology THEN <<>> ELSE topology[seg].succ

get_segment_predecessors(seg) ==
    SelectSeq(get_waypoint_predecessors(seg), LAMBDA w : w # seg)

get_segment_successors(seg) ==
    SelectSeq(get_waypoint_successors(seg), LAMBDA w : w # seg)

\* int(math.copysign(1, lane_id))
CopySign(lane_id) == IF lane_id < 0 THEN -1 ELSE 1

\* Python None where a segment tuple is expected.
NoSegment == <<>>

\* A right neighbour computed by the rule of the left neighbour.
right_by_left_rule(seg) ==
    IF seg \notin DOMAIN topology THEN NoSegment
    ELSE LET right_lane_id == IF seg[3] # 1 /\ seg[3] # -1
                              THEN seg[3] - CopySign(seg[3])
                              ELSE -1 * seg[3]
             right == <<seg[1], seg[2], right_lane_id>>
         IN  IF right \notin DOMAIN topology THEN NoSegment ELSE right

get_right(seg) ==
    IF seg \notin DOMAIN topology THEN NoSegment
    ELSE LET right == <<seg[1], seg[2], seg[3] + CopySign(seg[3])>>
         IN  IF right \notin DOMAIN topology THEN NoSegment ELSE right

get_left(seg) ==
    IF seg \notin DOMAIN topology THEN NoSegment
    ELSE LET left_lane_id == IF seg[3] # 1 /\ seg[3] # -1
                             THEN seg[3] - CopySign(seg[3])
                             ELSE -1 * seg[3]
             left == <<seg[1], seg[2], left_lane_id>>
         IN  IF left \notin DOMAIN topology THEN NoSegment ELSE left

----------------------------------------------------------------------------
(* Mesh: src/lanelet2/lanelet2_map.py *)

EmptyMap == [ k \in {} |-> 0 ]

get_point(p) == IF p \in DOMAIN points THEN p ELSE None

\* The second point of each border in place of the first.
start_points_second(lanelet_uid) ==
    LET lanelet == lanelets[lanelet_uid]
    IN  << linestrings[lanelet.left].points[2],
           linestrings[lanelet.right].points[2] >>

get_lanelet_start_points(lanelet_uid) ==
    LET lanelet == lanelets[lanelet_uid]
    IN  << linestrings[lanelet.left].points[1],
           linestrings[lanelet.right].points[1] >>

get_lanelet_end_points(lanelet_uid) ==
    LET lanelet == lanelets[lanelet_uid]
    IN  << Last(linestrings[lanelet.left].points),
           Last(linestrings[lanelet.right].points) >>

\* A store that drops what it is given.
forget_point(pts, p, value) == pts

\* A store that takes the point it is given in place of the one it holds.
replace_point(pts, p, value) ==
    [ k \in DOMAIN pts \cup {p} |-> IF k = p THEN value ELSE pts[k] ]

\* add_point: a uid already stored keeps its point.
add_point(pts, p, value) ==
    IF p \in DOMAIN pts THEN pts ELSE pts @@ (p :> value)

\* add_linestring / add_lanelet / add_regulatory_element: plain dict store.
add_primitive(store, p, value) ==
    [ k \in DOMAIN store \cup {p} |-> IF k = p THEN value ELSE store[k] ]

----------------------------------------------------------------------------
(* Link-Point Resolver: _get_link_points and its four nested searches.     *)
(* Each search returns the point found (or None) and the visited segments  *)
(* it leaves behind, in the order they were added, because                 *)
(* visited_segments is shared by the recursion.                            *)

Found(p, visited) == [ point |-> p, visited |-> visited ]

processed(segs) == SelectSeq(segs, LAMBDA s : s \in DOMAIN odr2lanelet)

\* A search that never finds a point.
not_found(seg, visited) == Found(None, visited)

RECURSIVE _get_start_left(_, _), _get_start_right(_, _)
RECURSIVE _get_end_left(_, _), _get_end_right(_, _)
RECURSIVE FirstPoint(_, _)

\* The searches a body tries one after the other, each as <<search, segment>>:
\* "point = search(*segment); if point: return point", and None at the end.
FirstPoint(tries, visited) ==
    IF tries = <<>> THEN Found(None, visited)
    ELSE LET search == Head(tries)[1]
             s == Head(tries)[2]
             r == CASE search = "start_left"  -> _get_start_left(s, visited)
                    [] search = "start_right" -> _get_start_right(s, visited)
                    [] search = "end_left"    -> _get_end_left(s, visited)
                    [] search = "end_right"   -> _get_end_right(s, visited)
         IN  IF Truthy(r.point) THEN r
             ELSE FirstPoint(Tail(tries), r.visited)

Each(search, segs) == [ i \in 1..Len(segs) |-> <<search, segs[i]>> ]

\* A start-left search that asks the left neighbour before the predecessors.
neighbour_before_predecessors(seg, visited) ==
    IF seg \in Range(visited) THEN Found(None, visited)
    ELSE
      LET predecessors == get_segment_predecessors(seg)
          processed_predecessors == processed(predecessors)
          left == get_left(seg)
      IN  IF processed_predecessors # <<>>
          THEN Found(get_lanelet_end_points(
                       odr2lanelet[processed_predecessors[1]])[1],
                     Append(visited, seg))
          ELSE FirstPoint(
                 ( IF left = NoSegment THEN <<>>
                   ELSE IF seg[3] * left[3] > 0
                        THEN << <<"start_right", left>> >>
                        ELSE << <<"end_left", left>> >> ) \o
                 Each("end_left", predecessors),
                 Append(visited, seg))

_get_start_left(seg, visited) ==
    IF seg \in Range(visited) THEN Found(None, visited)
    ELSE
      LET predecessors == get_segment_predecessors(seg)
          processed_predecessors == processed(predecessors)
          left == get_left(seg)
      IN  IF processed_predecessors # <<>>
          THEN Found(get_lanelet_end_points(
                       odr2lanelet[processed_predecessors[1]])[1],
                     Append(visited, seg))
          ELSE FirstPoint(
                 Each("end_left", predecessors) \o
                 ( IF left = NoSegment THEN <<>>
                   ELSE IF seg[3] * left[3] > 0
                        THEN << <<"start_right", left>> >>
                        ELSE << <<"end_left", left>> >> ),
                 Append(visited, seg))

_get_start_right(seg, visited) ==
    IF seg \in Range(visited) THEN Found(None, visited)
    ELSE
      LET predecessors == get_segment_predecessors(seg)
          processed_predecessors == processed(predecessors)
          right == get_right(seg)
      IN  IF processed_predecessors # <<>>
          THEN Found(get_lanelet_end_points(
                       odr2lanelet[processed_predecessors[1]])[2],
                     Append(visited, seg))
          ELSE FirstPoint(
                 Each("end_right", predecessors) \o
                 ( IF right = NoSegment THEN <<>>
                   ELSE << <<"start_left", right>> >> ),
                 Append(visited, seg))

_get_end_left(seg, visited) ==
    IF seg \in Range(visited) THEN Found(None, visited)
    ELSE
      LET successors == get_segment_successors(seg)
          processed_successors == processed(successors)
          left == get_left(seg)
      IN  IF processed_successors # <<>>
          THEN Found(get_lanelet_start_points(
                       odr2lanelet[processed_successors[1]])[1],
                     Append(visited, seg))
          ELSE FirstPoint(
                 Each("start_left", successors) \o
                 ( IF left = NoSegment THEN <<>>
                   ELSE IF seg[3] * left[3] > 0
                        THEN << <<"end_right", left>> >>
                        ELSE << <<"start_left", left>> >> ),
                 Append(visited, seg))

_get_end_right(seg, visited) ==
    IF seg \in Range(visited) THEN Found(None, visited)
    ELSE
      LET successors == get_segment_successors(seg)
          processed_successors == processed(successors)
          right == get_right(seg)
      IN  IF processed_successors # <<>>
          THEN Found(get_lanelet_start_points(
                       odr2lanelet[processed_successors[1]])[2],
                     Append(visited, seg))
          ELSE FirstPoint(
                 Each("start_right", successors) \o
                 ( IF right = NoSegment THEN <<>>
                   ELSE << <<"end_left", right>> >> ),
                 Append(visited, seg))

\* Nothing survives in visited_segments from one top-level query to the next.
NoneVisited == <<>>

\* "points" of lines 609-612 from the results of the four top-level queries;
\* `expanded` notes, for each of them, the segments it added to
\* visited_segments.
LinkPoints(lstart, rstart, lend, rend) ==
    [ pre  |-> << get_point(lstart.point), get_point(rstart.point) >>,
      succ |-> << get_point(lend.point), get_point(rend.point) >>,
      expanded |-> << lstart.visited, rstart.visited,
                      lend.visited, rend.visited >> ]

\* Four queries that go on with the visited_segments of the query before.
link_points_never_cleared(seg) ==
    LET Since(before, r) == [ r EXCEPT !.visited =
                                SubSeq(r.visited, Len(before) + 1, Len(r.visited)) ]
        Fourth(a, b, c) ==
            LinkPoints(Since(NoneVisited, a), Since(a.visited, b),
                       Since(b.visited, c),
                       Since(c.visited, _get_end_right(seg, c.visited)))
        Third(a, b) == Fourth(a, b, _get_end_left(seg, b.visited))
        Second(a) == Third(a, _get_start_right(seg, a.visited))
    IN  Second(_get_start_left(seg, NoneVisited))

\* The four top-level queries, each with clear=True, then get_point on each.
_get_link_points(seg) ==
    LinkPoints(_get_start_left(seg, NoneVisited),
               _get_start_right(seg, NoneVisited),
               _get_end_left(seg, NoneVisited),
               _get_end_right(seg, NoneVisited))

----------------------------------------------------------------------------
(* Border Sampler: _create_reference_border.  A location is <<x, y>>, an   *)
(* angle is a whole number of milliradians.                                *)

\* Python None where a location or a waypoint is expected.
NoLocation == <<>>

abs(x) == IF x < 0 THEN -x ELSE x

\* math.atan of q / p for 0 <= q <= p, p > 0, in milliradians, by
\* x * (pi/4 + 0.273 * (1 - x)), which is within 4 mrad of the arc tangent
\* and gives equal ratios equal angles.
Atan(q, p) ==
    LET x == (1000 * q) \div p
    IN  (x * (785 + (273 * (1000 - x)) \div 1000)) \div 1000

\* math.atan2(y, x) in milliradians: in (-pi, pi], 0 for y = x = 0 and pi for
\* y = 0, x < 0 (a difference of equal floats is +0.0).
atan2(y, x) ==
    IF x = 0 /\ y = 0 THEN 0
    ELSE LET inner == IF abs(y) <= abs(x) THEN Atan(abs(y), abs(x))
                      ELSE 1571 - Atan(abs(x), abs(y))
             upper == IF x >= 0 THEN inner ELSE 3142 - inner
         IN  IF y >= 0 THEN upper ELSE -upper

\* THRESHOLD_ANGLE = 0.01, in milliradians.
THRESHOLD_ANGLE == 10

\* A test that takes a turn for a straight run and a straight run for a turn.
aligned_when_turning(loc1, loc2, loc3) ==
    LET angle1 == atan2(loc1[1] - loc2[1], loc1[2] - loc2[2])
        angle2 == atan2(loc2[1] - loc3[1], loc2[2] - loc3[2])
    IN  abs(angle1 - angle2) >= THRESHOLD_ANGLE

\* _is_aligned, lines 287-299.
_is_aligned(loc1, loc2, loc3) ==
    LET dx1 == loc1[1] - loc2[1]
        dy1 == loc1[2] - loc2[2]
        dx2 == loc2[1] - loc3[1]
        dy2 == loc2[2] - loc3[2]
        angle1 == atan2(dx1, dy1)
        angle2 == atan2(dx2, dy2)
        diff_angle == abs(angle1 - angle2)
    IN  diff_angle < THRESHOLD_ANGLE

\* Lines 350-370 for one side: the look-ahead point is put into the buffer
\* <<current, candidate, look_ahead>> and the candidate is dropped or added.
LookAhead(buffer, transforms, look_ahead) ==
    IF _is_aligned(buffer[1], buffer[2], look_ahead)
    THEN [ buffer |-> <<buffer[1], look_ahead, NoLocation>>,
           transforms |-> transforms ]
    ELSE [ buffer |-> <<buffer[2], look_ahead, NoLocation>>,
           transforms |-> Append(transforms, buffer[2]) ]

\* The body of the while loop, lines 340-372, over the waypoints `nexts` the
\* loop goes through (those that pass the test of lines 326-328 and the
\* distance test of lines 332-338), each with its two border locations.
RECURSIVE SampleLoop(_, _, _)
SampleLoop(l, r, nexts) ==
    IF nexts = <<>> THEN [ l |-> l, r |-> r ]
    ELSE IF l.buffer[2] = NoLocation /\ r.buffer[2] = NoLocation
    THEN SampleLoop([ l EXCEPT !.buffer[2] = Head(nexts).left ],
                    [ r EXCEPT !.buffer[2] = Head(nexts).right ],
                    Tail(nexts))
    ELSE SampleLoop(LookAhead(l.buffer, l.transforms, Head(nexts).left),
                    LookAhead(r.buffer, r.transforms, Head(nexts).right),
                    Tail(nexts))

\* Lines 375-382: the last candidate against the border of the end waypoint.
LastCandidate(side, end_location) ==
    IF ~_is_aligned(side.buffer[1], side.buffer[2], end_location)
    THEN Append(side.transforms, side.buffer[2])
    ELSE side.transforms

SampleEnd(st, end_waypoint) ==
    IF /\ end_waypoint # NoLocation
       /\ st.l.buffer[2] # NoLocation /\ st.r.buffer[2] # NoLocation
    THEN [ left |-> LastCandidate(st.l, end_waypoint.left),
           right |-> LastCandidate(st.r, end_waypoint.right) ]
    ELSE [ left |-> st.l.transforms, right |-> st.r.transforms ]

\* A sampler that also returns the candidate that is left over at the end.
with_last_candidate(start_waypoint, nexts, end_waypoint) ==
    LET st == SampleLoop(
                [ buffer |-> <<start_waypoint.left, NoLocation, NoLocation>>,
                  transforms |-> <<>> ],
                [ buffer |-> <<start_waypoint.right, NoLocation, NoLocation>>,
                  transforms |-> <<>> ],
                nexts)
        Rest(side) == IF side.buffer[2] = NoLocation THEN side.transforms
                      ELSE Append(side.transforms, side.buffer[2])
    IN  [ left |-> Rest(st.l), right |-> Rest(st.r) ]

\* _create_reference_border, lines 277-384: ltransforms and rtransforms.
_create_reference_border(start_waypoint, nexts, end_waypoint) ==
    SampleEnd(
        SampleLoop(
            [ buffer |-> <<start_waypoint.left, NoLocation, NoLocation>>,
              transforms |-> <<>> ],
            [ buffer |-> <<start_waypoint.right, NoLocation, NoLocation>>,
              transforms |-> <<>> ],
            nexts),
        end_waypoint)

----------------------------------------------------------------------------
(* Mesh Builder: _is_adjacent, _create_point, _convert_road_to_lanelets *)

\* The id rule with one threshold for both signs.
adjacent_by_magnitude(road_id, section_id, lane_id, other_lane_id) ==
    LET difference == IF lane_id >= other_lane_id
                      THEN lane_id - other_lane_id
                      ELSE other_lane_id - lane_id
        seg == <<road_id, section_id, lane_id>>
        other == <<road_id, section_id, other_lane_id>>
    IN  /\ difference <= 1
        /\ Range(get_segment_predecessors(seg)) \cap
           Range(get_segment_predecessors(other)) = {}
        /\ Range(get_segment_successors(seg)) \cap
           Range(get_segment_successors(other)) = {}

\* The id rule alone, the common predecessors and successors not looked at.
adjacent_by_ids(road_id, section_id, lane_id, other_lane_id) ==
    LET direction == lane_id * other_lane_id
        difference == IF lane_id >= other_lane_id
                      THEN lane_id - other_lane_id
                      ELSE other_lane_id - lane_id
    IN  IF direction < 0 /\ difference > 2 THEN FALSE
        ELSE IF direction > 0 /\ difference > 1 THEN FALSE
        ELSE TRUE

_is_adjacent(road_id, section_id, lane_id, other_lane_id) ==
    LET direction == lane_id * other_lane_id
        difference == IF lane_id >= other_lane_id
                      THEN lane_id - other_lane_id
                      ELSE other_lane_id - lane_id
        seg == <<road_id, section_id, lane_id>>
        other == <<road_id, section_id, other_lane_id>>
        common_predecessors == Range(get_segment_predecessors(seg)) \cap
                               Range(get_segment_predecessors(other))
        common_successors == Range(get_segment_successors(seg)) \cap
                             Range(get_segment_successors(other))
    IN  IF direction < 0 /\ difference > 2 THEN FALSE
        ELSE IF direction > 0 /\ difference > 1 THEN FALSE
        ELSE IF common_predecessors # {} THEN FALSE
        ELSE IF common_successors # {} THEN FALSE
        ELSE TRUE

\* A counter that hands out its current value again.
same_uid(u) == u

\* _next_uid, lines 35-37, on the value u of self._uid.
_next_uid(u) == u + 1

\* The location a point was created for.
Location(kind, seg, side, at) ==
    [ kind |-> kind, seg |-> seg, side |-> side, at |-> at ]

\* One border of a lane: "[create_point(start) if not pre else pre]
\* + [create_point(loc) for loc in reference_border] + [... end ...]" followed
\* by map(add_point, ...).  u is self._uid before, n the number of sampled
\* intermediate locations.  Returns the uid counter after, the edge (point
\* uids) and the point store after.
BuildBorder(u, pts, seg, side, pre, n, succ) ==
    LET u1 == IF pre = None THEN _next_uid(u) ELSE u
        first == IF pre = None THEN u1 ELSE pre
        u2 == u1 + n
        u3 == IF succ = None THEN _next_uid(u2) ELSE u2
        last == IF succ = None THEN u3 ELSE succ
        edge == <<first>> \o [ i \in 1..n |-> u1 + i ] \o <<last>>
        at(i) == IF i = 1 THEN 0 ELSE IF i = n + 2 THEN n + 1 ELSE i - 1
        RECURSIVE Added(_, _)
        Added(store, i) ==
            IF i > Len(edge) THEN store
            ELSE Added(add_point(store, edge[i],
                                 IF i = 1 /\ pre # None THEN store[pre]
                                 ELSE IF i = n + 2 /\ succ # None THEN store[succ]
                                 ELSE Location("border", seg, side, at(i))),
                       i + 1)
    IN  [ uid |-> u3, edge |-> edge, points |-> Added(pts, 1) ]

\* Python None where a dict of tags is expected.
NoTags == <<>>

\* Bridge.lanelet2_marking(carla_marking, has_neighbour=False), bridge.py
\* 5-78, on carla_marking.type; a type no branch names falls through.
lanelet2_marking(_type, has_neighbour) ==
    CASE _type = "NONE" -> [ type |-> "road_border" ]
      [] _type = "Other" -> [ type |-> "road_border" ]
      [] _type = "Broken" ->
            [ type |-> "line_thin", subtype |-> "dashed",
              lane_change |-> IF has_neighbour THEN "yes" ELSE "no" ]
      [] _type = "Solid" -> [ type |-> "line_thin", subtype |-> "solid" ]
      [] _type = "SolidSolid" ->
            [ type |-> "line_thin", subtype |-> "solid_solid" ]
      [] _type = "SolidBroken" ->
            [ type |-> "line_thin", subtype |-> "solid_dashed",
              lane_change_right |-> "no",
              lane_change_left |-> IF has_neighbour THEN "yes" ELSE "no" ]
      [] _type = "BrokenSolid" ->
            [ type |-> "line_thin", subtype |-> "dashed_solid",
              lane_change_right |-> IF has_neighbour THEN "yes" ELSE "no",
              lane_change_left |-> "no" ]
      [] _type = "BrokenBroken" ->
            [ type |-> "line_thin", subtype |-> "dashed",
              lane_change |-> IF has_neighbour THEN "yes" ELSE "no" ]
      [] _type = "BottsDots" ->
            [ type |-> "line_thin", subtype |-> "dashed",
              lane_change |-> IF has_neighbour THEN "yes" ELSE "no" ]
      [] _type = "Grass" -> [ type |-> "line_thin", subtype |-> "solid" ]
      [] _type = "Curb" -> [ type |-> "line_thin", subtype |-> "solid" ]
      [] OTHER -> NoTags

\* Border tags that are "virtual" only where the marking gives no tags.
marking_before_junction(junction, carla_marking) ==
    IF junction /\ lanelet2_marking(carla_marking, FALSE) = NoTags
    THEN [ type |-> "virtual" ]
    ELSE lanelet2_marking(carla_marking, FALSE)

\* Lines 125-127: the tags of the marking, asked without has_neighbour, or
\* "virtual" for a start waypoint in a junction.
BorderAttributes(junction, carla_marking) ==
    IF junction THEN [ type |-> "virtual" ]
    ELSE lanelet2_marking(carla_marking, FALSE)

\* _create_border_linestring: a fresh uid, the marking tags or "virtual".
_create_border_linestring(u, seg, edge, border) ==
    [ uid |-> _next_uid(u),
      points |-> edge,
      attributes |-> BorderAttributes(is_junction[seg],
                                      IF border = "left" THEN marking.left
                                      ELSE marking.right),
      border |-> border ]

NewLanelet(left, right, subtype) ==
    [ left |-> left, right |-> right, regulatory_elements |-> <<>>,
      subtype |-> subtype ]

\* What one iteration of the lane loop leaves behind.
Built(name, lp, u, pts, ls, edges, lines) ==
    [ branch |-> name, link |-> lp, uid |-> u, points |-> pts,
      linestrings |-> ls, edges |-> edges, lines |-> lines ]

\* Lines 157-180: first lane of a section, or not adjacent: both borders.
FreshBranch(seg, lp) ==
    LET Finish(L, R) ==
            Built("fresh", lp, R.uid + 3, R.points,
                  add_primitive(
                      add_primitive(linestrings, R.uid + 1,
                          _create_border_linestring(R.uid, seg, L.edge, "left")),
                      R.uid + 2,
                      _create_border_linestring(R.uid + 1, seg, R.edge, "right")),
                  <<L.edge, R.edge>>,
                  <<R.uid + 1, R.uid + 2>>)
        Right(L) ==
            Finish(L, BuildBorder(L.uid, L.points, seg, "right",
                                  lp.pre[2], ref_border.right, lp.succ[2]))
    IN  Right(BuildBorder(uid, points, seg, "left",
                          lp.pre[1], ref_border.left, lp.succ[1]))

\* A negative lane that takes the previous lane's right border as its own.
share_previous_right(seg, lp) ==
    LET Finish(L) ==
            Built("right_shared", lp, L.uid + 2, L.points,
                  add_primitive(linestrings, L.uid + 1,
                      _create_border_linestring(L.uid, seg, L.edge, "left")),
                  <<L.edge, last_edges[2]>>,
                  <<L.uid + 1, last_linestrings[2]>>)
    IN  Finish(BuildBorder(uid, points, seg, "left",
                           lp.pre[1], ref_border.left, lp.succ[1]))

\* Lines 195-211: lane_id < 0, the right border is the previous left border.
RightSharedBranch(seg, lp) ==
    LET Finish(L) ==
            Built("right_shared", lp, L.uid + 2, L.points,
                  add_primitive(linestrings, L.uid + 1,
                      _create_border_linestring(L.uid, seg, L.edge, "left")),
                  <<L.edge, last_edges[1]>>,
                  <<L.uid + 1, last_linestrings[1]>>)
    IN  Finish(BuildBorder(uid, points, seg, "left",
                           lp.pre[1], ref_border.left, lp.succ[1]))

\* A lane loop that samples both borders of a positive lane again.
both_borders_again(seg, lp) == FreshBranch(seg, lp)

\* Lines 236-252: lane_id > 0, the left border is the previous lane's left
\* border reversed (lane_id == 1) or its right border (lane_id > 1).  The
\* left Linestring object is always created (a uid is spent on it) but it is
\* added to the mesh only when lane_id == 1.
LeftSharedBranch(seg, lp) ==
    LET lane_id == seg[3]
        left_edge == IF lane_id = 1 THEN Reverse(last_edges[1]) ELSE last_edges[2]
        Finish(R) ==
            Built(IF lane_id = 1 THEN "left_reversed" ELSE "left_shared",
                  lp, R.uid + 3, R.points,
                  add_primitive(
                      IF lane_id = 1
                      THEN add_primitive(linestrings, R.uid + 1,
                               _create_border_linestring(R.uid, seg, left_edge, "left"))
                      ELSE linestrings,
                      R.uid + 2,
                      _create_border_linestring(R.uid + 1, seg, R.edge, "right")),
                  <<left_edge, R.edge>>,
                  << IF lane_id = 1 THEN R.uid + 1 ELSE last_linestrings[2],
                     R.uid + 2 >>)
    IN  Finish(BuildBorder(uid, points, seg, "right",
                           lp.pre[2], ref_border.right, lp.succ[2]))

\* A lane loop that treats lane 1 as it treats the negative lanes.
negative_rule_below_two(seg, lp) ==
    IF idx = 0 \/ ~_is_adjacent(seg[1], seg[2], seg[3], last_lane_id)
    THEN FreshBranch(seg, lp)
    ELSE IF seg[3] < 2 THEN RightSharedBranch(seg, lp)
    ELSE LeftSharedBranch(seg, lp)

\* One iteration of the lane loop of _convert_road_to_lanelets for seg.
Branches(seg, lp) ==
    IF idx = 0 \/ ~_is_adjacent(seg[1], seg[2], seg[3], last_lane_id)
    THEN FreshBranch(seg, lp)
    ELSE IF seg[3] < 0 THEN RightSharedBranch(seg, lp)
    ELSE LeftSharedBranch(seg, lp)

LaneStep(seg) == Branches(seg, _get_link_points(seg))

----------------------------------------------------------------------------
(* Crosswalks and traffic lights *)

\* _convert_crosswalk_to_lanelet: p1, p4 on the left, p2, p3 on the right.
CrosswalkStep(n) ==
    LET loc(c) == Location("crosswalk", NoSegment, c, n)
        pts == add_point(add_point(add_point(add_point(points,
                   uid + 1, loc("p1")), uid + 2, loc("p4")),
                   uid + 3, loc("p2")), uid + 4, loc("p3"))
        line(e) == [ uid |-> 0, points |-> e,
                     attributes |-> [ type |-> "pedestrian_marking" ],
                     border |-> "none" ]
        left == [ line(<<uid + 1, uid + 2>>) EXCEPT !.uid = uid + 5 ]
        right == [ line(<<uid + 3, uid + 4>>) EXCEPT !.uid = uid + 6 ]
    IN  [ uid |-> uid + 7, points |-> pts,
          linestrings |-> add_primitive(add_primitive(linestrings,
                              left.uid, left), right.uid, right),
          lanelets |-> add_primitive(lanelets, uid + 7,
                              NewLanelet(left.uid, right.uid, "crosswalk")) ]

\* The light-box loop of _convert_traffic_light_to_regulatory_element.
RECURSIVE BoxLoop(_, _)
BoxLoop(st, k) ==
    IF k = 0 THEN st
    ELSE
      LET u == st.uid
          loc(c) == Location("traffic_light", NoSegment, c, Len(st.boxes) + 1)
          light_box == [ uid |-> u + 1, points |-> <<u + 2, u + 3>>,
                         attributes |-> [ type |-> "traffic_light" ],
                         border |-> "none" ]
          light_bulbs == [ uid |-> u + 4, points |-> <<u + 5, u + 6, u + 7>>,
                           attributes |-> [ type |-> "light_bulbs" ],
                           border |-> "none" ]
          pts == add_point(add_point(add_point(add_point(add_point(st.points,
                     u + 2, loc("left")), u + 3, loc("right")),
                     u + 5, loc("green")), u + 6, loc("yellow")),
                     u + 7, loc("red"))
      IN  BoxLoop([ st EXCEPT
                      !.uid = u + 7,
                      !.points = pts,
                      !.linestrings = add_primitive(add_primitive(@,
                          light_box.uid, light_box), light_bulbs.uid, light_bulbs),
                      !.boxes = Append(@, light_box.uid),
                      !.bulbs = Append(@, light_bulbs.uid) ],
                  k - 1)

\* self._odr2lanelet[segment]: a KeyError when the segment has no entry.
IndexLookup(index, seg) == IF seg \in DOMAIN index THEN index[seg] ELSE None

\* A landmark loop over lanelets that all share one regulatory-element list.
RECURSIVE attach_to_shared_list(_, _)
attach_to_shared_list(st, landmarks) ==
    IF landmarks = <<>> \/ st.raised THEN st
    ELSE
      LET u == st.uid
          seg == Head(landmarks)
          stop_line == [ uid |-> u + 1, points |-> <<u + 2, u + 3>>,
                         attributes |-> [ type |-> "stop_line" ],
                         border |-> "none" ]
          pts == add_point(add_point(st.points,
                     u + 2, Location("stop_line", seg, "left", 0)),
                     u + 3, Location("stop_line", seg, "point", 0))
          regulatory_element == [ refers |-> st.boxes,
                                  ref_line |-> <<stop_line.uid>>,
                                  light_bulbs |-> st.bulbs ]
          lanelet_uid == IndexLookup(odr2lanelet, seg)
          stored == [ st EXCEPT
                        !.uid = u + 4,
                        !.points = pts,
                        !.linestrings = add_primitive(@, stop_line.uid, stop_line),
                        !.regulatory_elements =
                            add_primitive(@, u + 4, regulatory_element),
                        !.seen = @ \cup {seg} ]
      IN  IF lanelet_uid = None
          THEN [ stored EXCEPT !.raised = TRUE ]
          ELSE attach_to_shared_list(
                 [ stored EXCEPT
                     !.lanelets = [ l \in DOMAIN @ |->
                         [ @[l] EXCEPT !.regulatory_elements = Append(@, u + 4) ] ] ],
                 Tail(landmarks))

\* The landmark loop: stop line, regulatory element, attachment.  A failed
\* index lookup raises; the loop stops there with what it has stored so far.
RECURSIVE LandmarkLoop(_, _)
LandmarkLoop(st, landmarks) ==
    IF landmarks = <<>> \/ st.raised THEN st
    ELSE
      LET u == st.uid
          seg == Head(landmarks)
          stop_line == [ uid |-> u + 1, points |-> <<u + 2, u + 3>>,
                         attributes |-> [ type |-> "stop_line" ],
                         border |-> "none" ]
          pts == add_point(add_point(st.points,
                     u + 2, Location("stop_line", seg, "left", 0)),
                     u + 3, Location("stop_line", seg, "point", 0))
          regulatory_element == [ refers |-> st.boxes,
                                  ref_line |-> <<stop_line.uid>>,
                                  light_bulbs |-> st.bulbs ]
          lanelet_uid == IndexLookup(odr2lanelet, seg)
          stored == [ st EXCEPT
                        !.uid = u + 4,
                        !.points = pts,
                        !.linestrings = add_primitive(@, stop_line.uid, stop_line),
                        !.regulatory_elements =
                            add_primitive(@, u + 4, regulatory_element),
                        !.seen = @ \cup {seg} ]
      IN  IF lanelet_uid = None
          THEN [ stored EXCEPT !.raised = TRUE ]
          ELSE LandmarkLoop(
                 [ stored EXCEPT
                     !.lanelets[lanelet_uid].regulatory_elements =
                         Append(@, u + 4) ],
                 Tail(landmarks))

TrafficLightStep(traffic_light) ==
    LandmarkLoop(
        BoxLoop([ uid |-> uid, points |-> points, linestrings |-> linestrings,
                  lanelets |-> lanelets,
                  regulatory_elements |-> regulatory_elements,
                  boxes |-> <<>>, bulbs |-> <<>>,
                  seen |-> landmark_seen, raised |-> FALSE ],
                traffic_light.boxes),
        traffic_light.landmarks)

----------------------------------------------------------------------------
(* The lane graphs, junction flags and sampled borders the model draws from *)

\* The lane starts of a graph: two single lanes, or both roads in full.
Layouts == { { <<1, 0, -1>>, <<2, 0, -1>> }, StartSegments }

\* A link joins a lane start to a lane of the other road, or to the sink.
Links(W) ==
    { p \in W \X W : p[1][1] # p[2][1] } \cup
    { p \in { <<2, 0, -1>> } \X { SinkSegment } : p[1] \in W }

RECURSIVE UpTo(_, _)
UpTo(S, k) ==
    IF k = 0 THEN {{}}
    ELSE LET smaller == UpTo(S, k - 1)
         IN  smaller \cup { E \cup {x} : E \in smaller, x \in S }

\* Every pair of segments of S, in one fixed order.
AllPairs(S) ==
    LET ss == SortedSegs(S)
        n == Len(ss)
    IN  [ i \in 1..(n * n) |-> << ss[((i - 1) \div n) + 1], ss[((i - 1) % n) + 1] >> ]

\* carla_map.get_topology(): every lane start has its links, or, when it has
\* none, one pair that ends on its own segment.
CarlaTopology(W, E) ==
    LET pairs == E \cup { <<a, a>> : a \in { w \in W : \A e \in E : e[1] # w } }
    IN  SelectSeq(AllPairs(W \cup { e[1] : e \in E } \cup { e[2] : e \in E }),
                  LAMBDA p : p \in pairs)

CarlaTopologies ==
    { CarlaTopology(W, E) : <<W, E>> \in
        { we \in Layouts \X UpTo(Links(StartSegments), MaxLinks) :
            we[2] \subseteq Links(we[1]) } }

\* is_junction is a property of the road.
JunctionRoads == { {}, {2} }

\* Every lane of the snapshot samples MaxRef intermediate locations in all.
RefBorders ==
    { rb \in [ left : 0..MaxRef, right : 0..MaxRef ] : rb.left + rb.right = MaxRef }

CrosswalkCounts == {0, 1}

LandmarkSegments == { <<2, 0, -1>>, OffGraphSegment }

LandmarkSeqs == UNION { [ 1..n -> LandmarkSegments ] : n \in 0..MaxLandmarks }

TrafficLightChoices ==
    { <<>> } \cup
    { << [ boxes |-> k, landmarks |-> ls ] >> : k \in 0..MaxBoxes, ls \in LandmarkSeqs }

----------------------------------------------------------------------------
(* Specification *)

NoLast == << <<>>, <<>> >>

NoCall == <<>>

\* Odr2Lanelet2Conversor.__init__ and the locals no call has touched yet.
Constructed ==
    /\ crosswalks = None
    /\ traffic_lights = {}
    /\ uid = 0
    /\ points = EmptyMap
    /\ linestrings = EmptyMap
    /\ lanelets = EmptyMap
    /\ regulatory_elements = EmptyMap
    /\ odr2lanelet = EmptyMap
    /\ roads_todo = {}
    /\ lanes_todo = <<>>
    /\ idx = 0
    /\ last_edges = NoLast
    /\ last_linestrings = <<0, 0>>
    /\ last_lane_id = 0
    /\ segment = NoSegment
    /\ link = [ pre |-> <<None, None>>, succ |-> <<None, None>>,
               expanded |-> <<NoneVisited, NoneVisited, NoneVisited, NoneVisited>> ]
    /\ branch = "none"
    /\ adjacent = NoCall
    /\ crosswalks_todo = 0
    /\ lights_todo = <<>>
    /\ landmark_seen = {}
    /\ order = <<>>
    /\ calls = 0
    /\ fresh = TRUE
    /\ returned = <<>>
    /\ warnings = {}
    /\ reference = NoLocation
    /\ saved = NoCall

Init ==
    /\ \E topo \in CarlaTopologies :
         /\ waypoints = CreateWaypoints(topo)
         /\ topology = CreateTopology(topo)
    /\ \E J \in JunctionRoads :
         is_junction = [ s \in Segments |-> s[1] \in J ]
    /\ ref_border \in RefBorders
    /\ sampled = NoLocation
    /\ marking = [ left |-> "Broken", right |-> "Broken" ]
    /\ pc = "new"
    /\ Constructed

\* __call__, lines 40-42: a new mesh and index; the uid counter is kept.
StartCall ==
    /\ points' = EmptyMap
    /\ linestrings' = EmptyMap
    /\ lanelets' = EmptyMap
    /\ regulatory_elements' = EmptyMap
    /\ odr2lanelet' = EmptyMap
    /\ pc' = "std"
    /\ roads_todo' = get_std_roads
    /\ order' = <<>>
    /\ landmark_seen' = {}
    /\ calls' = calls + 1
    /\ UNCHANGED <<snapshot, warnings, saved, sampler, crosswalks, traffic_lights, uid, locals,
                   crosswalks_todo, lights_todo, returned>>

Call ==
    /\ pc = "new"
    /\ StartCall
    /\ UNCHANGED fresh

\* _convert_road_to_lanelets(road_id) is entered for the next road of the set.
BeginRoad ==
    /\ pc \in {"std", "paths"}
    /\ lanes_todo = <<>>
    /\ \E road_id \in roads_todo :
         /\ roads_todo' = roads_todo \ {road_id}
         /\ lanes_todo' =
              LET sections == get_sections(road_id)
                  RECURSIVE Flat(_)
                  Flat(i) ==
                      IF i > Len(sections) THEN <<>>
                      ELSE LET lanes == get_lanes(road_id, sections[i])
                           IN  [ j \in 1..Len(lanes) |->
                                   <<road_id, sections[i], lanes[j]>> ] \o Flat(i + 1)
              IN  Flat(1)
         /\ order' = Append(order, road_id)
    /\ idx' = 0
    /\ UNCHANGED <<snapshot, warnings, saved, sampler, crosswalks, traffic_lights, uid, mesh, odr2lanelet,
                   pc, last_edges, last_linestrings, last_lane_id, segment, link,
                   branch, adjacent, crosswalks_todo, lights_todo, landmark_seen,
                   calls, fresh, returned>>

\* One lane of the current road: lines 142-273.
Converted(seg, r, rest) ==
    /\ uid' = r.uid
    /\ points' = r.points
    /\ linestrings' = r.linestrings
    /\ lanelets' = add_primitive(lanelets, r.uid,
                                 NewLanelet(r.lines[1], r.lines[2], "road"))
    /\ odr2lanelet' = add_primitive(odr2lanelet, seg, r.uid)
    /\ last_edges' = r.edges
    /\ last_linestrings' = r.lines
    /\ last_lane_id' = seg[3]
    /\ segment' = seg
    /\ link' = r.link
    /\ branch' = r.branch
    /\ adjacent' = IF idx = 0 THEN NoCall
                   ELSE << seg[3], last_lane_id,
                           _is_adjacent(seg[1], seg[2], seg[3], last_lane_id) >>
    /\ lanes_todo' = rest
    /\ idx' = IF rest # <<>> /\ rest[1][2] = seg[2] THEN idx + 1 ELSE 0

ConvertLane ==
    /\ pc \in {"std", "paths"}
    /\ lanes_todo # <<>>
    /\ Converted(Head(lanes_todo), LaneStep(Head(lanes_todo)), Tail(lanes_todo))
    /\ UNCHANGED <<snapshot, warnings, saved, sampler, crosswalks, traffic_lights, regulatory_elements, pc,
                   roads_todo, crosswalks_todo, lights_todo, landmark_seen,
                   order, calls, fresh, returned>>

\* __call__, line 47: the standard roads are done, the junction paths follow.
StartPaths ==
    /\ pc = "std"
    /\ roads_todo = {}
    /\ lanes_todo = <<>>
    /\ pc' = "paths"
    /\ roads_todo' = get_paths
    /\ UNCHANGED <<snapshot, warnings, saved, sampler, crosswalks, traffic_lights, uid, mesh, odr2lanelet,
                   locals, crosswalks_todo, lights_todo, landmark_seen, order,
                   calls, fresh, returned>>

\* __call__, line 49: get_crosswalks() is asked of the provider.
StartCrosswalks ==
    /\ pc = "paths"
    /\ roads_todo = {}
    /\ lanes_todo = <<>>
    /\ pc' = "crosswalks"
    /\ IF crosswalks = None
       THEN crosswalks' \in CrosswalkCounts
       ELSE crosswalks' = crosswalks
    /\ crosswalks_todo' = crosswalks'
    /\ UNCHANGED <<snapshot, warnings, saved, sampler, traffic_lights, uid, mesh, odr2lanelet, roads_todo,
                   locals, lights_todo, landmark_seen, order, calls, fresh,
                   returned>>

ConvertCrosswalk ==
    /\ pc = "crosswalks"
    /\ crosswalks_todo > 0
    /\ LET r == CrosswalkStep(crosswalks - crosswalks_todo + 1)
       IN  /\ uid' = r.uid
           /\ points' = r.points
           /\ linestrings' = r.linestrings
           /\ lanelets' = r.lanelets
    /\ crosswalks_todo' = crosswalks_todo - 1
    /\ UNCHANGED <<snapshot, warnings, saved, sampler, crosswalks, traffic_lights, regulatory_elements,
                   odr2lanelet, pc, roads_todo, locals, lights_todo,
                   landmark_seen, order, calls, fresh, returned>>

\* __call__, line 51: get_traffic_lights() is asked of the provider.
StartTrafficLights ==
    /\ pc = "crosswalks"
    /\ crosswalks_todo = 0
    /\ pc' = "lights"
    /\ IF traffic_lights = {}
       THEN \E tls \in TrafficLightChoices : traffic_lights' = {tls}
       ELSE traffic_lights' = traffic_lights
    /\ lights_todo' = CHOOSE tls \in traffic_lights' : TRUE
    /\ UNCHANGED <<snapshot, warnings, saved, sampler, crosswalks, uid, mesh, odr2lanelet, roads_todo,
                   locals, crosswalks_todo, landmark_seen, order, calls, fresh,
                   returned>>

\* _convert_traffic_light_to_regulatory_element for the next traffic light.
ConvertTrafficLight ==
    /\ pc = "lights"
    /\ lights_todo # <<>>
    /\ LET r == TrafficLightStep(Head(lights_todo))
       IN  /\ uid' = r.uid
           /\ points' = r.points
           /\ linestrings' = r.linestrings
           /\ lanelets' = r.lanelets
           /\ regulatory_elements' = r.regulatory_elements
           /\ landmark_seen' = r.seen
           /\ pc' = IF r.raised THEN "error" ELSE pc
    /\ lights_todo' = Tail(lights_todo)
    /\ UNCHANGED <<snapshot, warnings, saved, sampler, crosswalks, traffic_lights, odr2lanelet, roads_todo,
                   locals, crosswalks_todo, order, calls, fresh, returned>>

\* __call__, line 53: return self._lanelet2_map.
Return ==
    /\ pc = "lights"
    /\ lights_todo = <<>>
    /\ pc' = "returned"
    /\ returned' = Append(returned,
                          [ points |-> points, linestrings |-> linestrings,
                            lanelets |-> lanelets,
                            regulatory_elements |-> regulatory_elements,
                            odr2lanelet |-> odr2lanelet, order |-> order,
                            fresh |-> fresh ])
    /\ UNCHANGED <<snapshot, warnings, saved, sampler, crosswalks, traffic_lights, uid, mesh, odr2lanelet,
                   roads_todo, locals, crosswalks_todo, lights_todo,
                   landmark_seen, order, calls, fresh>>

\* The segments of a road in the order of the nested loops of lines 738-740.
RoadSegments(road_id) ==
    LET sections == get_sections(road_id)
        RECURSIVE Flat(_)
        Flat(i) ==
            IF i > Len(sections) THEN <<>>
            ELSE LET lanes == get_lanes(road_id, sections[i])
                 IN  [ j \in 1..Len(lanes) |->
                         <<road_id, sections[i], lanes[j]>> ] \o Flat(i + 1)
    IN  Flat(1)

\* The orders in which a loop can go through a set of roads.
Orders(roads) ==
    { o \in [ 1..Cardinality(roads) -> roads ] :
        \A i, j \in 1..Cardinality(roads) : i # j => o[i] # o[j] }

RECURSIVE SegmentsInOrder(_)
SegmentsInOrder(roads) ==
    IF roads = <<>> THEN <<>>
    ELSE RoadSegments(Head(roads)) \o SegmentsInOrder(Tail(roads))

\* Lines 742-743 and 755-761: the end points of the predecessors' lanelets
\* and the start points of the successors' lanelets are not all the same.
Mismatch(seg) ==
    LET predecessors == get_segment_predecessors(seg)
        successors == get_segment_successors(seg)
        predecessors_points ==
            [ i \in 1..Len(predecessors) |->
                get_lanelet_end_points(odr2lanelet[predecessors[i]]) ]
        successors_points ==
            [ i \in 1..Len(successors) |->
                get_lanelet_start_points(odr2lanelet[successors[i]]) ]
    IN  \/ \E i \in 1..Len(predecessors) :
              predecessors_points[i] # predecessors_points[1]
        \/ \E i \in 1..Len(successors) :
              successors_points[i] # successors_points[1]

\* The body of validate() over the segments segs: self._odr2lanelet[...] of
\* lines 747 and 751 raises KeyError for a segment that has no entry.
RECURSIVE ValidateLoop(_, _)
ValidateLoop(st, segs) ==
    IF segs = <<>> \/ st.raised THEN st
    ELSE
      LET seg == Head(segs)
          named == Range(get_segment_predecessors(seg)) \cup
                   Range(get_segment_successors(seg))
      IN  IF \E n \in named : n \notin DOMAIN odr2lanelet
          THEN [ st EXCEPT !.raised = TRUE ]
          ELSE ValidateLoop(
                 [ st EXCEPT !.warnings =
                     IF Mismatch(seg) THEN @ \cup {seg} ELSE @ ],
                 Tail(segs))

Validated(r) ==
    /\ warnings' = r.warnings
    /\ pc' = IF r.raised THEN "validate_error" ELSE "validated"

\* validate(), lines 737-762, called on the conversor after __call__ returned.
Validate ==
    /\ pc = "returned"
    /\ \E roads \in Orders(get_roads) :
          Validated(ValidateLoop([ warnings |-> {}, raised |-> FALSE ],
                                 SegmentsInOrder(roads)))
    /\ UNCHANGED <<snapshot, saved, sampler, crosswalks, traffic_lights, uid, mesh,
                   odr2lanelet, roads_todo, locals, crosswalks_todo, lights_todo,
                   landmark_seen, order, calls, fresh, returned>>

Next ==
    \/ Call
    \/ BeginRoad
    \/ ConvertLane
    \/ StartPaths
    \/ StartCrosswalks
    \/ ConvertCrosswalk
    \/ StartTrafficLights
    \/ ConvertTrafficLight
    \/ Return
    \/ Validate

Spec == Init /\ [][Next]_vars

----------------------------------------------------------------------------
(* Re-running the conversion over the same snapshot *)

\* conversor(odr_map) is called once more on the same Odr2Lanelet2Conversor.
CallAgain ==
    /\ pc = "returned"
    /\ calls < MaxCalls
    /\ StartCall
    /\ fresh' = FALSE

\* __init__, lines 27-36: a second conversor is constructed over the snapshot.
NewConversor ==
    /\ pc = "returned"
    /\ calls < MaxCalls
    /\ uid' = 0
    /\ points' = EmptyMap
    /\ linestrings' = EmptyMap
    /\ lanelets' = EmptyMap
    /\ regulatory_elements' = EmptyMap
    /\ odr2lanelet' = EmptyMap
    /\ pc' = "new"
    /\ fresh' = TRUE
    /\ UNCHANGED <<snapshot, warnings, saved, sampler, crosswalks, traffic_lights, roads_todo, locals,
                   crosswalks_todo, lights_todo, landmark_seen, order, calls,
                   returned>>

NextRerun ==
    \/ Next
    \/ CallAgain
    \/ NewConversor

SpecRerun == Init /\ [][NextRerun]_vars

----------------------------------------------------------------------------
(* Serialization: save() of src/lanelet2/lanelet2_map.py *)

\* The decimal digits of a uid.
RECURSIVE Digits(_)
Digits(n) == IF n < 10 THEN <<n>> ELSE Append(Digits(n \div 10), n % 10)

\* Python values of two types: the int keys of the mesh and str(...) of them.
PyInt(n) == [ type |-> "int", value |-> n ]

str(n) == [ type |-> "str", value |-> Digits(n) ]

\* a == b of Python: values of different types are never equal.
PyEq(a, b) == a.type = b.type /\ a.value = b.value

\* key in store, for a dict whose keys are the uids of add_linestring.
In(key, store) == \E k \in DOMAIN store : PyEq(key, PyInt(k))

Member(type, ref, role) == [ type |-> type, ref |-> str(ref), role |-> role ]

\* _serialize_linestring, lines 91-100.
_serialize_linestring(l) ==
    [ id |-> str(l),
      nd |-> [ i \in 1..Len(linestrings[l].points) |->
                 str(linestrings[l].points[i]) ],
      tag |-> linestrings[l].attributes ]

\* _serialize_lanelet, lines 102-124.
_serialize_lanelet(l) ==
    [ id |-> str(l),
      member |->
          << Member("way", lanelets[l].left, "left"),
             Member("way", lanelets[l].right, "right") >> \o
          [ i \in 1..Len(lanelets[l].regulatory_elements) |->
              Member("relation", lanelets[l].regulatory_elements[i],
                     "regulatory_element") ] ]

\* The members of one role, lines 134-139.
RoleMembers(refs, role) ==
    [ i \in 1..Len(refs) |->
        Member(IF In(str(refs[i]), linestrings) THEN "way" ELSE "relation",
               refs[i], role) ]

\* _serialize_regulatory_element, lines 126-141.
_serialize_regulatory_element(r) ==
    [ id |-> str(r),
      member |-> RoleMembers(regulatory_elements[r].refers, "refers") \o
                 RoleMembers(regulatory_elements[r].ref_line, "ref_line") \o
                 RoleMembers(regulatory_elements[r].light_bulbs, "light_bulbs") ]

\* save(lanelet2_map, filename), lines 70-157, on the mesh __call__ returned.
Save ==
    /\ pc = "returned"
    /\ saved = NoCall
    /\ saved' =
          [ node |-> { str(p) : p \in DOMAIN points },
            way |-> { _serialize_linestring(l) : l \in DOMAIN linestrings },
            lanelet |-> { _serialize_lanelet(l) : l \in DOMAIN lanelets },
            regulatory_element |->
                { _serialize_regulatory_element(r) :
                    r \in DOMAIN regulatory_elements } ]
    /\ UNCHANGED <<snapshot, warnings, sampler, crosswalks, traffic_lights, uid,
                   mesh, odr2lanelet, pc, roads_todo, locals, crosswalks_todo,
                   lights_todo, landmark_seen, order, calls, fresh, returned>>

NextSave ==
    \/ Next
    \/ Save

SpecSave == Init /\ [][NextSave]_vars

----------------------------------------------------------------------------
(* The Lane-Adjacency Classifier on its own: any two lanes of one road *)

LaneIds == (-MaxLane..MaxLane) \ {0}

LaneSegments == { <<1, 0, l>> : l \in LaneIds }

\* A lane may lead into road 2, and road 3 may lead into a lane.
LaneLinks ==
    { <<w, <<2, 0, -1>>>> : w \in LaneSegments } \cup
    { <<<<3, 0, -1>>, w>> : w \in LaneSegments }

InitAdjacent ==
    /\ \E E \in UpTo(LaneLinks, MaxLinks) :
         /\ waypoints = CreateWaypoints(CarlaTopology(LaneSegments, E))
         /\ topology = CreateTopology(CarlaTopology(LaneSegments, E))
    /\ is_junction = [ s \in Segments |-> FALSE ]
    /\ ref_border = [ left |-> 0, right |-> 0 ]
    /\ sampled = NoLocation
    /\ marking = [ left |-> "Broken", right |-> "Broken" ]
    /\ pc = "ask"
    /\ Constructed

\* self._is_adjacent(road_id, section_id, lane_id, other_lane_id)
AskAdjacent ==
    /\ pc = "ask"
    /\ \E lane_id \in LaneIds, other_lane_id \in LaneIds :
         adjacent' = << lane_id, other_lane_id,
                        _is_adjacent(1, 0, lane_id, other_lane_id) >>
    /\ pc' = "answered"
    /\ UNCHANGED <<snapshot, warnings, saved, sampler, crosswalks, traffic_lights, uid, mesh, odr2lanelet,
                   roads_todo, lanes_todo, idx, last_edges, last_linestrings,
                   last_lane_id, segment, link, branch, crosswalks_todo,
                   lights_todo, landmark_seen, order, calls, fresh, returned>>

SpecAdjacent == InitAdjacent /\ [][AskAdjacent]_vars

----------------------------------------------------------------------------
(* The Border Sampler on its own: any sequence of border locations *)

Coordinates == { 0, 10, 20 }

Locations == Coordinates \X Coordinates

\* The left border locations of up to n waypoints, one after the other.
RECURSIVE LocationSeqs(_)
LocationSeqs(n) ==
    IF n = 0 THEN { <<>> }
    ELSE LocationSeqs(n - 1) \cup
         { Append(q, loc) : q \in { t \in LocationSeqs(n - 1) : Len(t) = n - 1 },
                            loc \in Locations }

\* The waypoint number i with left border `loc`: its right border is the
\* same location, or lies on the straight line y = 0.
BorderOf(loc, i, straight) ==
    [ left |-> loc, right |-> IF straight THEN <<10 * i, 0>> ELSE loc ]

InitSampler ==
    /\ \E start \in Locations, q \in LocationSeqs(MaxSamples),
          end \in Locations \cup {NoLocation}, straight \in BOOLEAN :
         sampled = [ start |-> BorderOf(start, 0, straight),
                     nexts |-> [ i \in 1..Len(q) |-> BorderOf(q[i], i, straight) ],
                     end |-> IF end = NoLocation THEN NoLocation
                             ELSE BorderOf(end, Len(q) + 1, straight) ]
    /\ waypoints = {}
    /\ topology = EmptyMap
    /\ is_junction = [ s \in Segments |-> FALSE ]
    /\ ref_border = [ left |-> 0, right |-> 0 ]
    /\ marking = [ left |-> "Broken", right |-> "Broken" ]
    /\ pc = "sample"
    /\ Constructed

\* self._create_reference_border(start_waypoint, end_waypoint)
Sample ==
    /\ pc = "sample"
    /\ reference' = _create_reference_border(sampled.start, sampled.nexts,
                                             sampled.end)
    /\ pc' = "sampled"
    /\ UNCHANGED <<snapshot, warnings, saved, sampled, crosswalks, traffic_lights, uid,
                   mesh, odr2lanelet, roads_todo, locals, crosswalks_todo,
                   lights_todo, landmark_seen, order, calls, fresh, returned>>

SpecSampler == InitSampler /\ [][Sample]_vars

----------------------------------------------------------------------------
(* The border tags on their own: any marking type on either side *)

\* carla.LaneMarkingType, and a type that lanelet2_marking has no branch for.
MarkingTypes ==
    { "NONE", "Other", "Broken", "Solid", "SolidSolid", "SolidBroken",
      "BrokenSolid", "BrokenBroken", "BottsDots", "Grass", "Curb", "Unlisted" }

InitMarking ==
    /\ marking \in [ left : MarkingTypes, right : MarkingTypes ]
    /\ \E junction \in BOOLEAN :
         is_junction = [ s \in Segments |-> junction ]
    /\ waypoints = { <<1, 0, -1>> }
    /\ topology = EmptyMap
    /\ ref_border = [ left |-> 0, right |-> 0 ]
    /\ sampled = NoLocation
    /\ pc = "border"
    /\ Constructed

\* _create_border_linestring(start_waypoint, points, border) and
\* add_linestring of the result, for the lane <<1, 0, -1>>.
CreateBorderLinestring ==
    /\ pc = "border"
    /\ \E border \in {"left", "right"} :
         linestrings' = add_primitive(linestrings, _next_uid(uid),
                            _create_border_linestring(uid, <<1, 0, -1>>, <<>>,
                                                      border))
    /\ uid' = _next_uid(uid)
    /\ pc' = "created"
    /\ UNCHANGED <<snapshot, warnings, saved, sampler, crosswalks, traffic_lights,
                   points, lanelets, regulatory_elements, odr2lanelet,
                   roads_todo, locals, crosswalks_todo, lights_todo,
                   landmark_seen, order, calls, fresh, returned>>

SpecMarking == InitMarking /\ [][CreateBorderLinestring]_vars

----------------------------------------------------------------------------
(* Validation of a lane graph in which one lane splits into two *)

\* Lane 2 of road 1 leads into both lanes of road 2, lane 1 into one of them.
SplitLinks ==
    { << <<1, 0, 1>>, <<2, 0, -1>> >>,
      << <<1, 0, 2>>, <<2, 0, -2>> >>,
      << <<1, 0, 2>>, <<2, 0, -1>> >> }

InitValidate ==
    /\ \E E \in UpTo(Links(StartSegments), MaxExtra) :
         /\ waypoints = CreateWaypoints(CarlaTopology(StartSegments,
                                                      SplitLinks \cup E))
         /\ topology = CreateTopology(CarlaTopology(StartSegments,
                                                    SplitLinks \cup E))
    /\ \E J \in JunctionRoads :
         is_junction = [ s \in Segments |-> s[1] \in J ]
    /\ ref_border \in RefBorders
    /\ sampled = NoLocation
    /\ marking = [ left |-> "Broken", right |-> "Broken" ]
    /\ pc = "new"
    /\ Constructed

SpecValidate == InitValidate /\ [][Next]_vars

----------------------------------------------------------------------------
(* Properties *)

AllLandmarks ==
    UNION { UNION { Range(tls[i].landmarks) : i \in 1..Len(tls) } :
            tls \in traffic_lights }

RefsOf(regulatory_element) ==
    Range(regulatory_element.refers) \cup Range(regulatory_element.ref_line) \cup
    Range(regulatory_element.light_bulbs)

ReferentiallyClosed ==
    /\ \A l \in DOMAIN linestrings :
         Range(linestrings[l].points) \subseteq DOMAIN points
    /\ \A l \in DOMAIN lanelets :
         /\ lanelets[l].left \in DOMAIN linestrings
         /\ lanelets[l].right \in DOMAIN linestrings
         /\ Range(lanelets[l].regulatory_elements) \subseteq
                DOMAIN regulatory_elements
    /\ \A r \in DOMAIN regulatory_elements :
         RefsOf(regulatory_elements[r]) \subseteq
             DOMAIN linestrings \cup DOMAIN lanelets

\* C1: after a completed run the mesh is referentially closed: every point id
\* of a linestring is a stored point, both borders of every lanelet are stored
\* linestrings, every regulatory-element id of a lanelet is a stored
\* regulatory element, and everything a regulatory element refers to is a
\* stored linestring or lanelet.
C1_ReferentiallyClosed == pc = "returned" => ReferentiallyClosed

\* A completed run with roads, a crosswalk and a traffic light whose
\* regulatory element is attached to a lanelet and refers to a light box.
C1_Witness ==
    /\ pc = "returned"
    /\ crosswalks = 1
    /\ DOMAIN odr2lanelet = StartSegments
    /\ \E l \in DOMAIN lanelets : lanelets[l].regulatory_elements # <<>>
    /\ \E r \in DOMAIN regulatory_elements :
         regulatory_elements[r].refers # <<>>

\* C6 (as stated): a landmark whose segment has no index entry is skipped; no
\* exception leaves the traffic-light handler, and a completed run has handled
\* every landmark of every traffic light.
C6_UnindexedLandmarkSkipped ==
    /\ pc # "error"
    /\ pc = "returned" => AllLandmarks \subseteq landmark_seen

\* C8 (as stated): at the start of every call the uid counter is back at its
\* initial value, together with the mesh and the index.
C8_UidResetAtRunStart ==
    pc = "std" /\ order = <<>> =>
        /\ uid = 0
        /\ points = EmptyMap /\ linestrings = EmptyMap /\ lanelets = EmptyMap
        /\ regulatory_elements = EmptyMap /\ odr2lanelet = EmptyMap

MeshOf(r) ==
    << r.points, r.linestrings, r.lanelets, r.regulatory_elements, r.odr2lanelet >>

\* C7 (as stated): two runs over the same snapshot in the same road order
\* return identical meshes and indexes, whether the second run is made by a
\* new conversor or by the same conversor called again.
C7_RerunIdentical ==
    \A i, j \in 1..Len(returned) :
        returned[i].order = returned[j].order =>
            MeshOf(returned[i]) = MeshOf(returned[j])

AllIds ==
    DOMAIN points \cup DOMAIN linestrings \cup DOMAIN lanelets \cup
    DOMAIN regulatory_elements

IdsPositiveDistinct ==
    /\ AllIds \subseteq 1..uid
    /\ DOMAIN points \cap DOMAIN linestrings = {}
    /\ DOMAIN points \cap DOMAIN lanelets = {}
    /\ DOMAIN points \cap DOMAIN regulatory_elements = {}
    /\ DOMAIN linestrings \cap DOMAIN lanelets = {}
    /\ DOMAIN linestrings \cap DOMAIN regulatory_elements = {}
    /\ DOMAIN lanelets \cap DOMAIN regulatory_elements = {}

NextUidIncreases ==
    /\ uid' >= uid
    /\ (AllIds' \ AllIds) \subseteq (uid + 1)..uid'

\* C9: in every state of a run the ids of points, linestrings, lanelets and
\* regulatory elements are positive and distinct across the four kinds, and
\* every id a step stores is larger than every id handed out before it, so no
\* id is handed out twice and none is 0.
C9_IdsPositiveUnique == []IdsPositiveDistinct /\ [][NextUidIncreases]_vars

\* A completed run that stored primitives of all four kinds.
C9_Witness ==
    /\ pc = "returned"
    /\ DOMAIN odr2lanelet = StartSegments
    /\ DOMAIN regulatory_elements # {}
    /\ crosswalks = 1
    /\ uid > 20

NoCommonNeighbour(lane_id, other_lane_id) ==
    /\ Range(get_segment_predecessors(<<1, 0, lane_id>>)) \cap
       Range(get_segment_predecessors(<<1, 0, other_lane_id>>)) = {}
    /\ Range(get_segment_successors(<<1, 0, lane_id>>)) \cap
       Range(get_segment_successors(<<1, 0, other_lane_id>>)) = {}

Abs(x) == IF x < 0 THEN -x ELSE x

\* C10: for lanes a, b with no common predecessor and no common successor,
\* _is_adjacent(a, b) is false exactly when a*b < 0 and |a-b| > 2, or a*b > 0
\* and |a-b| > 1; so (-1,-2) and (1,-1) are adjacent and (1,3) is not.
C10_AdjacentByIdRule ==
    pc = "answered" /\ NoCommonNeighbour(adjacent[1], adjacent[2]) =>
        LET a == adjacent[1]
            b == adjacent[2]
        IN  /\ adjacent[3] = ~( \/ a * b < 0 /\ Abs(a - b) > 2
                                \/ a * b > 0 /\ Abs(a - b) > 1 )
            /\ <<a, b>> = <<-1, -2>> => adjacent[3]
            /\ <<a, b>> = <<1, -1>> => adjacent[3]
            /\ <<a, b>> = <<1, 3>> => ~adjacent[3]

\* The sign-crossing pair was asked about, over a graph in which the two
\* lanes have links but none in common, and was found adjacent.
C10_Witness ==
    /\ pc = "answered"
    /\ adjacent = <<1, -1, TRUE>>
    /\ get_segment_successors(<<1, 0, 1>>) # <<>>
    /\ get_segment_predecessors(<<1, 0, -1>>) # <<>>

\* Two lanes of one section with no lane start between them, b after a.
Consecutive(a, b) ==
    /\ a[1] = b[1] /\ a[2] = b[2] /\ a[3] < b[3]
    /\ ~\E w \in waypoints :
          w[1] = a[1] /\ w[2] = a[2] /\ a[3] < w[3] /\ w[3] < b[3]

\* The pairs the lane loop met as (last_lane_id, lane_id) and found adjacent.
AdjacentPairs ==
    { p \in (DOMAIN odr2lanelet) \X (DOMAIN odr2lanelet) :
        /\ Consecutive(p[1], p[2])
        /\ _is_adjacent(p[2][1], p[2][2], p[2][3], p[1][3]) }

BorderRefs(seg) ==
    << lanelets[odr2lanelet[seg]].left, lanelets[odr2lanelet[seg]].right >>

Times(id, refs) == Cardinality({ k \in 1..2 : refs[k] = id })

BorderPoints(seg) ==
    Range(linestrings[BorderRefs(seg)[1]].points) \cup
    Range(linestrings[BorderRefs(seg)[2]].points)

\* The border of the later lane b that lies towards the earlier lane.
SharedSide(b) == IF b[3] < 0 THEN BorderRefs(b)[2] ELSE BorderRefs(b)[1]

NoNewSharedPoint(a, b) ==
    Range(linestrings[SharedSide(b)].points) \subseteq BorderPoints(a)

\* C2 (as stated): for every adjacent pair of consecutive lanes, the pair
\* -1 / 1 included, one linestring id appears exactly once in the borders of
\* each of the two lanelets, and the shared side of the later lanelet uses
\* only points of the earlier lanelet.
C2_OneSharedLinestring ==
    \A p \in AdjacentPairs :
        /\ \E id \in DOMAIN linestrings :
             Times(id, BorderRefs(p[1])) = 1 /\ Times(id, BorderRefs(p[2])) = 1
        /\ NoNewSharedPoint(p[1], p[2])

\* C2 (amended): an adjacent pair on one side of the road shares one
\* linestring id, once in each lanelet; for the pair -1 / 1 the left border of
\* lane 1 is a linestring of its own whose points are those of the left
\* border of lane -1 in reverse order; in both cases the shared side of the
\* later lanelet uses only points of the earlier lanelet.
C2_SharedOrReversed ==
    \A p \in AdjacentPairs :
        /\ p[1][3] * p[2][3] > 0 =>
             \E id \in DOMAIN linestrings :
                 Times(id, BorderRefs(p[1])) = 1 /\ Times(id, BorderRefs(p[2])) = 1
        /\ p[1][3] * p[2][3] < 0 =>
             /\ BorderRefs(p[2])[1] \notin Range(BorderRefs(p[1]))
             /\ BorderRefs(p[2])[2] \notin Range(BorderRefs(p[1]))
             /\ linestrings[BorderRefs(p[2])[1]].points =
                    Reverse(linestrings[BorderRefs(p[1])[1]].points)
        /\ NoNewSharedPoint(p[1], p[2])

\* Road 1 is converted with lane 1 adjacent to lane -1 and lane 2 to lane 1,
\* and road 2 with lane -1 adjacent to lane -2.
C2_Witness ==
    /\ AdjacentPairs = { << <<1, 0, -1>>, <<1, 0, 1>> >>,
                         << <<1, 0, 1>>, <<1, 0, 2>> >>,
                         << <<2, 0, -2>>, <<2, 0, -1>> >> }
    /\ \E l \in DOMAIN linestrings : Len(linestrings[l].points) > 2

CornersOf(lanelet_uid) ==
    [ pre |-> get_lanelet_start_points(lanelet_uid),
      succ |-> get_lanelet_end_points(lanelet_uid) ]

UsesLinkPoint(corners, k) ==
    /\ link.pre[k] # None => corners.pre[k] = link.pre[k]
    /\ link.succ[k] # None => corners.succ[k] = link.succ[k]

\* C3 (as stated): every corner for which _get_link_points returned a point
\* carries exactly that point in the lanelet built for the segment, whichever
\* branch built it.
C3_LinkPointsUsed ==
    segment \in DOMAIN odr2lanelet =>
        /\ UsesLinkPoint(CornersOf(odr2lanelet[segment]), 1)
        /\ UsesLinkPoint(CornersOf(odr2lanelet[segment]), 2)

\* B is the only successor of A and A the only predecessor of B, and the
\* graph has no other segment.
TwoSegmentGraph(A, B) ==
    /\ DOMAIN topology = {A, B}
    /\ A # B
    /\ get_segment_successors(A) = <<B>>
    /\ get_segment_predecessors(B) = <<A>>

\* C4: in a graph of two segments A -> B, once both are converted the start
\* points of B's lanelet are the end points of A's lanelet, whichever of the
\* two was converted first.
C4_BoundaryShared ==
    \A A \in DOMAIN odr2lanelet, B \in DOMAIN odr2lanelet :
        TwoSegmentGraph(A, B) =>
            get_lanelet_start_points(odr2lanelet[B]) =
                get_lanelet_end_points(odr2lanelet[A])

\* The successor was converted first and the predecessor found its points.
C4_Witness ==
    /\ TwoSegmentGraph(<<1, 0, -1>>, <<2, 0, -1>>)
    /\ DOMAIN odr2lanelet = { <<1, 0, -1>>, <<2, 0, -1>> }
    /\ order = <<2, 1>>
    /\ link.succ[1] # None /\ link.succ[2] # None

CornerPoint(r, c) ==
    LET lanelet == r.lanelets[r.odr2lanelet[c[1]]]
        line == r.linestrings[IF c[3] = "left" THEN lanelet.left
                              ELSE lanelet.right].points
    IN  IF c[2] = "start" THEN line[1] ELSE Last(line)

Identified(r) ==
    LET corners == (DOMAIN r.odr2lanelet) \X {"start", "end"} \X {"left", "right"}
    IN  { p \in corners \X corners : CornerPoint(r, p[1]) = CornerPoint(r, p[2]) }

\* C5 (as stated): whatever two orders the roads of a graph are converted in,
\* two segment corners carry the same point in one mesh exactly when they
\* carry the same point in the other.
C5_OrderIndependent ==
    \A i \in 1..Len(returned), j \in 1..Len(returned) :
        i < j => Identified(returned[i]) = Identified(returned[j])

----------------------------------------------------------------------------
(* The overridden adjacency *)

\* A step of the lane loop: the lane `segment'` has just been recorded.
LaneDone == odr2lanelet' # odr2lanelet /\ segment' \in DOMAIN odr2lanelet'

\* The lane the loop saw just before `segment` in the same section.
Previous == <<segment[1], segment[2], adjacent[2]>>

IdRule(lane_id, other_lane_id) ==
    /\ lane_id * other_lane_id < 0 => Abs(lane_id - other_lane_id) <= 2
    /\ lane_id * other_lane_id > 0 => Abs(lane_id - other_lane_id) <= 1

CommonNeighbour(seg, other) ==
    \/ Range(get_segment_predecessors(seg)) \cap
       Range(get_segment_predecessors(other)) # {}
    \/ Range(get_segment_successors(seg)) \cap
       Range(get_segment_successors(other)) # {}

\* The lane just converted passes the id rule with the lane before it, and
\* the two have a predecessor or a successor segment in common.
Overridden ==
    /\ adjacent # NoCall
    /\ IdRule(adjacent[1], adjacent[2])
    /\ CommonNeighbour(segment, Previous)

\* C11: when a lane passes the lane-id rule with the lane before it but the
\* two share a predecessor or a successor segment, _is_adjacent answers false
\* without raising, both borders of the later lane are built as two new
\* linestrings (none of them a border of the previous lanelet), and the lane
\* loop goes on with the remaining lanes.
C11_CommonNeighbourFresh ==
    [][ (LaneDone /\ Overridden') =>
          /\ adjacent'[3] = FALSE
          /\ branch' = "fresh"
          /\ DOMAIN linestrings' \ DOMAIN linestrings = Range(BorderRefs(segment)')
          /\ Cardinality(Range(BorderRefs(segment)')) = 2
          /\ Range(BorderRefs(segment)') \cap Range(BorderRefs(Previous)') = {}
          /\ pc' = pc
          /\ lanes_todo' = Tail(lanes_todo) ]_vars

\* Lanes -1 and 1 of road 1 lead into the same successor, each got its own
\* two linestrings, and lane 2 after them was converted as well.
C11_Witness ==
    /\ pc = "returned"
    /\ CommonNeighbour(<<1, 0, -1>>, <<1, 0, 1>>)
    /\ {<<1, 0, -1>>, <<1, 0, 1>>, <<1, 0, 2>>} \subseteq DOMAIN odr2lanelet
    /\ Cardinality(Range(BorderRefs(<<1, 0, -1>>)) \cup
                   Range(BorderRefs(<<1, 0, 1>>))) = 4

----------------------------------------------------------------------------
(* The borders of each branch *)

\* The lane just converted was classified adjacent to the lane before it.
ClassifiedAdjacent == adjacent # NoCall /\ adjacent[3]

BuiltLinestrings == DOMAIN linestrings' \ DOMAIN linestrings

\* C12: a lane classified adjacent to the previous lane of its section takes,
\* for lane_id < 0, the previous lanelet's left Linestring id as right border
\* and gets only a new left linestring; for lane_id > 1, the previous
\* lanelet's right Linestring id as left border and only a new right
\* linestring; for lane_id == 1, a left border with the previous lanelet's
\* left-border point ids in reverse order.  The first lane of a section and a
\* lane that is not adjacent get two new linestrings.
C12_BranchBorders ==
    [][ LaneDone =>
          IF ClassifiedAdjacent'
          THEN /\ segment'[3] < 0 =>
                    /\ BorderRefs(segment)'[2] = BorderRefs(Previous)'[1]
                    /\ BuiltLinestrings = {BorderRefs(segment)'[1]}
               /\ segment'[3] > 1 =>
                    /\ BorderRefs(segment)'[1] = BorderRefs(Previous)'[2]
                    /\ BuiltLinestrings = {BorderRefs(segment)'[2]}
               /\ segment'[3] = 1 =>
                    linestrings'[BorderRefs(segment)'[1]].points =
                        Reverse(linestrings'[BorderRefs(Previous)'[1]].points)
          ELSE /\ BuiltLinestrings = Range(BorderRefs(segment)')
               /\ Cardinality(BuiltLinestrings) = 2 ]_vars

\* Road 1 with lanes -1, 1, 2 and road 2 with lanes -2, -1 were converted
\* with every pair of neighbouring lanes adjacent.
C12_Witness ==
    /\ pc = "returned"
    /\ { << <<1, 0, -1>>, <<1, 0, 1>> >>, << <<1, 0, 1>>, <<1, 0, 2>> >>,
         << <<2, 0, -2>>, <<2, 0, -1>> >> } \subseteq AdjacentPairs

----------------------------------------------------------------------------
(* The visited segments of the link-point searches *)

NoDuplicates(s) == Cardinality(Range(s)) = Len(s)

\* Every search asked of a segment that is already visited answers None and
\* leaves the visited segments as they are.
SecondVisitIsNone(e) ==
    \A s \in Range(e) :
        /\ _get_start_left(s, e) = Found(None, e)
        /\ _get_start_right(s, e) = Found(None, e)
        /\ _get_end_left(s, e) = Found(None, e)
        /\ _get_end_right(s, e) = Found(None, e)

\* C14: each of the four top-level corner queries of a lane terminates on
\* every lane graph, cyclic ones included; it starts with no segment visited,
\* so the queried segment is the first one it expands; it expands no segment
\* twice, and a search that comes to a visited segment answers None at once.
C14_ExpandedOnce ==
    segment # NoSegment =>
        \A k \in 1..4 :
            /\ link.expanded[k] # <<>>
            /\ Head(link.expanded[k]) = segment
            /\ NoDuplicates(link.expanded[k])
            /\ SecondVisitIsNone(link.expanded[k])

\* Lane -1 of road 1 and lane -1 of road 2 lead into each other; the
\* start-left query of the first went through the second and came back.
C14_Witness ==
    /\ <<2, 0, -1>> \in Range(get_segment_successors(<<1, 0, -1>>))
    /\ <<1, 0, -1>> \in Range(get_segment_successors(<<2, 0, -1>>))
    /\ segment = <<1, 0, -1>>
    /\ DOMAIN odr2lanelet = {segment}
    /\ link.pre = <<None, None>>
    /\ SubSeq(link.expanded[1], 1, 2) = << <<1, 0, -1>>, <<2, 0, -1>> >>

----------------------------------------------------------------------------
(* The precedence of the corner searches *)

RECURSIVE Corner(_, _, _, _)
RECURSIVE FirstCorner(_, _)

\* The first result that is a point among the corner queries `asks`, each
\* <<end, side, segment>>, asked in this order.
FirstCorner(asks, seen) ==
    IF asks = <<>> THEN [ point |-> None, seen |-> seen ]
    ELSE LET r == Corner(Head(asks)[1], Head(asks)[2], Head(asks)[3], seen)
         IN  IF r.point # None THEN r ELSE FirstCorner(Tail(asks), r.seen)

\* The corner of seg at `end` ("start" or "end") and `side` ("left" or
\* "right") by the three rules in their order: a processed segment across
\* the end, else the segments across the end, else the lateral neighbour.
Corner(end, side, seg, seen) ==
    IF seg \in seen THEN [ point |-> None, seen |-> seen ]
    ELSE
      LET across == IF end = "start" THEN get_segment_predecessors(seg)
                    ELSE get_segment_successors(seg)
          done == SelectSeq(across, LAMBDA s : s \in DOMAIN odr2lanelet)
          k == IF side = "left" THEN 1 ELSE 2
          far == IF end = "start" THEN "end" ELSE "start"
          neighbour == IF side = "left" THEN get_left(seg) ELSE get_right(seg)
          lateral ==
              IF neighbour = NoSegment THEN <<>>
              ELSE IF side = "right" THEN << <<end, "left", neighbour>> >>
              ELSE IF seg[3] * neighbour[3] > 0
                   THEN << <<end, "right", neighbour>> >>
                   ELSE << <<far, "left", neighbour>> >>
      IN  IF done # <<>>
          THEN [ point |-> IF end = "start"
                           THEN get_lanelet_end_points(odr2lanelet[done[1]])[k]
                           ELSE get_lanelet_start_points(odr2lanelet[done[1]])[k],
                 seen |-> seen \cup {seg} ]
          ELSE FirstCorner([ i \in 1..Len(across) |-> <<far, side, across[i]>> ]
                               \o lateral,
                           seen \cup {seg})

\* C13: each corner search returns the first match in this order: the
\* matching end (or start) point of the first processed predecessor (or
\* successor), without recursion; else the first result of recursing into
\* each predecessor's end corner (successor's start corner) in list order;
\* else the recursion into the lateral neighbour (left neighbour: the right
\* corner of the same end for the same sign, the left corner of the other end
\* for opposite signs; right neighbour: the left corner of the same end);
\* else none.
C13_SearchPrecedence ==
    [][ LaneDone =>
          /\ link'.pre =
               << get_point(Corner("start", "left", segment', {}).point),
                  get_point(Corner("start", "right", segment', {}).point) >>
          /\ link'.succ =
               << get_point(Corner("end", "left", segment', {}).point),
                  get_point(Corner("end", "right", segment', {}).point) >> ]_vars

\* Lane 1 of road 1 found its start-left point through its left neighbour,
\* lane -1, after its unprocessed predecessor gave nothing.
C13_Witness ==
    /\ segment = <<1, 0, 1>>
    /\ get_segment_predecessors(segment) # <<>>
    /\ \A s \in Range(get_segment_predecessors(segment)) : s \notin DOMAIN odr2lanelet
    /\ <<1, 0, -1>> \in DOMAIN odr2lanelet
    /\ link.pre[1] # None
    /\ link.pre[1] = get_lanelet_end_points(odr2lanelet[<<1, 0, -1>>])[1]

----------------------------------------------------------------------------
(* The assertions of the right-hand searches *)

\* "assert lane_id * right_lane_id > 0" of lines 500 and 600 for seg.
RightAssertion(seg) ==
    get_right(seg) # NoSegment => seg[3] * get_right(seg)[3] > 0

\* C15: the assertions lane_id * right_lane_id > 0 of the start-right and
\* end-right searches never fail: for every segment with a non-zero lane id
\* that a search can come to, get_right answers nothing or a lane id of the
\* same sign.
C15_RightSameSign ==
    \A seg \in DOMAIN topology \cup
               UNION { Range(link.expanded[k]) : k \in 1..4 } :
        seg[3] # 0 => RightAssertion(seg)

\* The start-right query of lane 1 of road 1, which has no predecessor, went
\* on into its right neighbour, lane 2.
C15_Witness ==
    /\ segment = <<1, 0, 1>>
    /\ get_segment_predecessors(segment) = <<>>
    /\ get_right(segment) = <<1, 0, 2>>
    /\ SubSeq(link.expanded[2], 1, 2) = << <<1, 0, 1>>, <<1, 0, 2>> >>

----------------------------------------------------------------------------
(* The point counts of the two borders *)

\* C16: a lanelet whose left and right borders were both built in the same
\* lane step, from the same call of _create_reference_border, has as many
\* points on its left linestring as on its right one.
C16_SamePointCount ==
    (segment \in DOMAIN odr2lanelet /\ branch = "fresh") =>
        Len(linestrings[BorderRefs(segment)[1]].points) =
        Len(linestrings[BorderRefs(segment)[2]].points)

----------------------------------------------------------------------------
(* How often a linestring is a border *)

\* The lanelets that name the linestring id as their left or right border.
LaneletsOn(id) ==
    { l \in DOMAIN lanelets : lanelets[l].left = id \/ lanelets[l].right = id }

\* C17: after a completed run every Linestring id is the left or right border
\* of at most two lanelets, also with three consecutive adjacent lanes and
\* across the -1/1 pair.
C17_AtMostTwoLanelets ==
    pc = "returned" =>
        \A id \in DOMAIN linestrings : Cardinality(LaneletsOn(id)) <= 2

\* Lanes -1, 1 and 2 of road 1 are adjacent one after the other; the
\* linestring between lanes 1 and 2 is a border of exactly these two.
C17_Witness ==
    /\ pc = "returned"
    /\ { << <<1, 0, -1>>, <<1, 0, 1>> >>, << <<1, 0, 1>>, <<1, 0, 2>> >> }
           \subseteq AdjacentPairs
    /\ LaneletsOn(BorderRefs(<<1, 0, 2>>)[1]) =
           { odr2lanelet[<<1, 0, 1>>], odr2lanelet[<<1, 0, 2>>] }
    /\ Cardinality(LaneletsOn(BorderRefs(<<1, 0, -1>>)[1])) = 1

----------------------------------------------------------------------------
(* The index is written once per segment *)

----------------------------------------------------------------------------
(* Points are stored once *)

\* A point no handler creates.
ProbePoint == Location("probe", NoSegment, "none", 0)

\* The corners of the lane just converted for which a link point was found.
ResolvedCorners ==
    Cardinality({ c \in 1..2 : link.pre[c] # None }) +
    Cardinality({ c \in 1..2 : link.succ[c] # None })

\* C19: add_point of a point whose uid is already in the mesh leaves the
\* mesh as it is and returns that uid; no step of the Mesh Builder removes or
\* replaces a stored point; and a lane that builds both borders creates no
\* point and spends no uid for a corner whose link point was found.
C19_PointsStoredOnce ==
    [][ /\ \A p \in DOMAIN points : add_point(points, p, ProbePoint) = points
        /\ \A p \in DOMAIN points :
              p \in DOMAIN points' /\ points'[p] = points[p]
        /\ (LaneDone /\ branch' = "fresh") =>
              /\ Cardinality(DOMAIN points' \ DOMAIN points) =
                    4 + ref_border.left + ref_border.right - ResolvedCorners'
              /\ uid' - uid =
                    4 + ref_border.left + ref_border.right - ResolvedCorners' + 3
              /\ \A c \in 1..2 :
                    /\ link'.pre[c] # None =>
                          /\ link'.pre[c] \in DOMAIN points
                          /\ linestrings'[BorderRefs(segment)'[c]].points[1] =
                                link'.pre[c]
                    /\ link'.succ[c] # None =>
                          /\ link'.succ[c] \in DOMAIN points
                          /\ Last(linestrings'[BorderRefs(segment)'[c]].points) =
                                link'.succ[c]
      ]_vars

\* A lane built both borders and took over both start points from the
\* lanelet of its predecessor.
C19_Witness ==
    /\ segment \in DOMAIN odr2lanelet
    /\ branch = "fresh"
    /\ link.pre[1] # None /\ link.pre[2] # None
    /\ linestrings[BorderRefs(segment)[1]].points[1] = link.pre[1]
    /\ linestrings[BorderRefs(segment)[2]].points[1] = link.pre[2]
    /\ \E s \in DOMAIN odr2lanelet \ {segment} :
          get_lanelet_end_points(odr2lanelet[s]) = link.pre

----------------------------------------------------------------------------
(* The validator *)

\* C20: validate(), called after a completed conversion, never aborts: it
\* goes through every segment and logs a warning or does nothing, also when
\* a predecessor or successor segment named by the topology has no entry in
\* the index.
C20_ValidateNeverAborts == pc # "validate_error"

----------------------------------------------------------------------------
(* The Border Sampler on straight lines and on turns *)

\* The locations of one side the sampler is given, the end waypoint included.
SideLocations(side) ==
    LET of(wp) == IF side = "left" THEN wp.left ELSE wp.right
    IN  <<of(sampled.start)>> \o
        [ i \in 1..Len(sampled.nexts) |-> of(sampled.nexts[i]) ] \o
        ( IF sampled.end = NoLocation THEN <<>> ELSE <<of(sampled.end)>> )

\* Every step between consecutive locations is a move in one and the same
\* direction: the cross product of two consecutive steps is zero and their
\* dot product is positive.
OnOneLine(locs) ==
    \A i \in 1..(Len(locs) - 2) :
        LET ax == locs[i + 1][1] - locs[i][1]
            ay == locs[i + 1][2] - locs[i][2]
            bx == locs[i + 2][1] - locs[i + 1][1]
            by == locs[i + 2][2] - locs[i + 1][2]
        IN  ax * by - ay * bx = 0 /\ ax * bx + ay * by > 0

ReferenceOf(side) == IF side = "left" THEN reference.left ELSE reference.right

\* C21: when all the sampled border locations of one side lie on one
\* straight line, one after the other in any heading, the Border Sampler
\* returns no intermediate location for that side, with or without an end
\* waypoint, and the border built from it has the two end points only.
C21_StraightLineEmpty ==
    pc = "sampled" =>
        \A side \in {"left", "right"} :
            OnOneLine(SideLocations(side)) =>
                /\ ReferenceOf(side) = <<>>
                /\ Len(BuildBorder(uid, points, NoSegment, side, None,
                                   Len(ReferenceOf(side)), None).edge) = 2

\* The left border goes down the diagonal from (20,20) over (10,10) to the
\* end waypoint at (0,0) and nothing was returned for it.
C21_Witness ==
    /\ pc = "sampled"
    /\ SideLocations("left") = << <<20, 20>>, <<10, 10>>, <<0, 0>> >>
    /\ sampled.end # NoLocation
    /\ reference.left = <<>>

\* The angle of the step from location a to location b, as line 292 takes it.
StepAngle(a, b) == atan2(a[1] - b[1], a[2] - b[2])

\* The candidates that are emitted: rest holds the pending candidate and the
\* locations that arrive after it.  A candidate without a lookahead is not
\* emitted; one with a lookahead is emitted exactly when the two step angles
\* differ by the threshold or more, and then becomes the current location.
RECURSIVE Emitted(_, _)
Emitted(current, rest) ==
    IF Len(rest) < 2 THEN <<>>
    ELSE IF abs(StepAngle(current, rest[1]) - StepAngle(rest[1], rest[2]))
               >= THRESHOLD_ANGLE
         THEN <<rest[1]>> \o Emitted(rest[1], Tail(rest))
         ELSE Emitted(current, Tail(rest))

\* C22: for a border sampled at (0,0), (10,0), (10,10) with no end waypoint
\* the Border Sampler emits the middle location (10,0); in general a
\* candidate is emitted exactly when the absolute difference of the two step
\* angles is not below the threshold when its lookahead arrives, and without
\* an end waypoint the last pending candidate is not emitted.
C22_EmittedOnTurn ==
    pc = "sampled" =>
        /\ \A side \in {"left", "right"} :
              ReferenceOf(side) = Emitted(Head(SideLocations(side)),
                                          Tail(SideLocations(side)))
        /\ ( /\ sampled.end = NoLocation
             /\ SideLocations("left") = << <<0, 0>>, <<10, 0>>, <<10, 10>> >> )
           => reference.left = << <<10, 0>> >>

\* The border sampled at (0,0), (10,0), (10,10) with no end waypoint.
C22_Witness ==
    /\ pc = "sampled"
    /\ sampled.end = NoLocation
    /\ SideLocations("left") = << <<0, 0>>, <<10, 0>>, <<10, 10>> >>
    /\ reference.left = << <<10, 0>> >>
    /\ reference.right = <<>>

----------------------------------------------------------------------------
(* What a traffic light adds to the mesh *)

\* A step that converts the traffic light at the head of lights_todo, all of
\* whose landmark segments have an entry in the index.
IndexedLightDone ==
    /\ lights_todo # <<>>
    /\ lights_todo' = Tail(lights_todo)
    /\ \A i \in DOMAIN Head(lights_todo).landmarks :
          Head(lights_todo).landmarks[i] \in DOMAIN odr2lanelet

Occurrences(seq, x) == Cardinality({ i \in DOMAIN seq : seq[i] = x })

\* The linestrings of the step with the given type and number of points.
BuiltOfType(type, n) ==
    { l \in BuiltLinestrings :
        linestrings'[l].attributes.type = type /\ Len(linestrings'[l].points) = n }

BuiltElements == DOMAIN regulatory_elements' \ DOMAIN regulatory_elements

\* The segment of the landmark whose stop line the regulatory element r has.
LandmarkOf(r) ==
    points'[linestrings'[regulatory_elements'[r].ref_line[1]].points[1]].seg

\* C23: a traffic light with k light boxes and m landmarks whose segments are
\* all in the index adds exactly 2k+m linestrings (k boxes of 2 points, k
\* bulb linestrings of 3 points, m stop lines of 2 points) and exactly m
\* regulatory elements, each with refers = the k box ids, ref_line = its own
\* stop line, light_bulbs = the k bulb ids; the id of each is appended once
\* to the list of the lanelet indexed for its landmark and to no other list.
C23_TrafficLightAdds ==
    [][ IndexedLightDone =>
          /\ Cardinality(BuiltLinestrings) =
                2 * Head(lights_todo).boxes + Len(Head(lights_todo).landmarks)
          /\ Cardinality(BuiltOfType("traffic_light", 2)) = Head(lights_todo).boxes
          /\ Cardinality(BuiltOfType("light_bulbs", 3)) = Head(lights_todo).boxes
          /\ Cardinality(BuiltOfType("stop_line", 2)) =
                Len(Head(lights_todo).landmarks)
          /\ Cardinality(BuiltElements) = Len(Head(lights_todo).landmarks)
          /\ \A r \in BuiltElements :
                /\ Len(regulatory_elements'[r].refers) = Head(lights_todo).boxes
                /\ Range(regulatory_elements'[r].refers) =
                      BuiltOfType("traffic_light", 2)
                /\ Len(regulatory_elements'[r].light_bulbs) =
                      Head(lights_todo).boxes
                /\ Range(regulatory_elements'[r].light_bulbs) =
                      BuiltOfType("light_bulbs", 3)
                /\ Len(regulatory_elements'[r].ref_line) = 1
                /\ regulatory_elements'[r].ref_line[1] \in BuiltOfType("stop_line", 2)
                /\ \A q \in BuiltElements \ {r} :
                      regulatory_elements'[q].ref_line # regulatory_elements'[r].ref_line
                /\ \A l \in DOMAIN lanelets' :
                      Occurrences(lanelets'[l].regulatory_elements, r) =
                          IF l = odr2lanelet[LandmarkOf(r)] THEN 1 ELSE 0
          /\ pc' = pc
      ]_vars

\* A traffic light with one box and one landmark on lane -1 of road 2 was
\* converted: its regulatory element is on the list of that lanelet, and
\* another lanelet has an empty list.
C23_Witness ==
    /\ pc = "returned"
    /\ <<2, 0, -1>> \in DOMAIN odr2lanelet
    /\ Cardinality(DOMAIN regulatory_elements) = 1
    /\ \A r \in DOMAIN regulatory_elements :
          /\ Len(regulatory_elements[r].refers) = 1
          /\ lanelets[odr2lanelet[<<2, 0, -1>>]].regulatory_elements = <<r>>
    /\ \E l \in DOMAIN lanelets : lanelets[l].regulatory_elements = <<>>

----------------------------------------------------------------------------
(* The tags of border linestrings *)

\* A lane of the same direction lies next to `seg` on that side.
HasNeighbour(seg, side) ==
    LET other == IF side = "left" THEN get_left(seg) ELSE get_right(seg)
    IN  IF other = NoSegment THEN FALSE ELSE other[3] * seg[3] > 0

BrokenTags(has_neighbour) ==
    [ type |-> "line_thin", subtype |-> "dashed",
      lane_change |-> IF has_neighbour THEN "yes" ELSE "no" ]

\* C24: a border linestring the Mesh Builder builds for a non-junction
\* segment whose marking on that side is Broken carries type = line_thin,
\* subtype = dashed, and lane_change = yes when a same-direction neighbour lane
\* exists on that side, lane_change = no when none does.
C24_BrokenLaneChange ==
    [][ (LaneDone /\ ~is_junction[segment']) =>
          \A id \in BuiltLinestrings :
              LET side == linestrings'[id].border
              IN  (IF side = "left" THEN marking.left ELSE marking.right)
                      = "Broken"
                  => linestrings'[id].attributes =
                         BrokenTags(HasNeighbour(segment', side)) ]_vars

\* The linestring just created at a junction start waypoint.
Created == linestrings[uid]

\* C25: every border linestring newly created for a segment whose start
\* waypoint is in a junction has the attribute map {type: virtual} exactly,
\* whatever the marking type of that side, a type without a table row included.
C25_JunctionVirtual ==
    (pc = "created" /\ is_junction[<<1, 0, -1>>])
        => Created.attributes = [ type |-> "virtual" ]

C25_Witness ==
    /\ pc = "created"
    /\ is_junction[<<1, 0, -1>>]
    /\ Created.border = "left"
    /\ marking.left = "Unlisted"
    /\ Created.attributes = [ type |-> "virtual" ]

\* The table of marking types and tags that the mapping is to reproduce.
TagTable(_type, has_neighbour) ==
    CASE _type \in {"NONE", "Other", "Grass", "Curb"} ->
            [ type |-> "road_border" ]
      [] _type \in {"Broken", "BrokenBroken"} -> BrokenTags(has_neighbour)
      [] _type \in {"Solid", "BottsDots"} ->
            [ type |-> "line_thin", subtype |-> "solid" ]
      [] _type = "SolidSolid" ->
            [ type |-> "line_thin", subtype |-> "solid_solid" ]
      [] _type = "SolidBroken" ->
            [ type |-> "line_thin", subtype |-> "solid_dashed",
              lane_change_right |-> "no",
              lane_change_left |-> IF has_neighbour THEN "yes" ELSE "no" ]
      [] _type = "BrokenSolid" ->
            [ type |-> "line_thin", subtype |-> "dashed_solid",
              lane_change_right |-> IF has_neighbour THEN "yes" ELSE "no",
              lane_change_left |-> "no" ]

\* C26: for every marking type of the table, with and without a neighbour,
\* the marking-to-tag mapping returns the row of the table.
C26_MappingIsTable ==
    \A _type \in {marking.left, marking.right} \ {"Unlisted"} :
        \A has_neighbour \in BOOLEAN :
            lanelet2_marking(_type, has_neighbour) =
                TagTable(_type, has_neighbour)

----------------------------------------------------------------------------
(* The warnings of validate() *)

\* The segments that validate() goes through.
ValidatedSegments == UNION { Range(RoadSegments(r)) : r \in get_roads }

\* Every predecessor and successor of the segment has a lanelet.
Comparable(seg) ==
    Range(get_segment_predecessors(seg)) \cup
    Range(get_segment_successors(seg)) \subseteq DOMAIN odr2lanelet

\* C27: validate() logs a warning for a segment exactly when the end-point
\* pairs of its predecessors' lanelets are not all equal or the start-point
\* pairs of its successors' lanelets are not all equal; a segment with at most
\* one predecessor and at most one successor never gets a warning.
C27_WarnsExactlyOnMismatch ==
    pc \in {"validated", "validate_error"} =>
        \A seg \in ValidatedSegments :
            /\ Comparable(seg) => (seg \in warnings <=> Mismatch(seg))
            /\ (/\ Len(get_segment_predecessors(seg)) <= 1
                /\ Len(get_segment_successors(seg)) <= 1)
                   => seg \notin warnings

\* The lanelet of seg starts at the end points of each converted predecessor
\* and ends at the start points of each converted successor.
Consistent(seg) ==
    /\ \A p \in Range(get_segment_predecessors(seg)) \cap DOMAIN odr2lanelet :
           get_lanelet_start_points(odr2lanelet[seg]) =
               get_lanelet_end_points(odr2lanelet[p])
    /\ \A s \in Range(get_segment_successors(seg)) \cap DOMAIN odr2lanelet :
           get_lanelet_end_points(odr2lanelet[seg]) =
               get_lanelet_start_points(odr2lanelet[s])

\* C28: when validate() logs no warning after a completed conversion, every
\* converted segment's lanelet has the end-left and end-right points of each
\* predecessor's lanelet as its start points, and the start points of each
\* successor's lanelet as its end points.
C28_NoWarningMeansConsistent ==
    (pc = "validated" /\ warnings = {}) =>
        \A seg \in DOMAIN odr2lanelet : Consistent(seg)

----------------------------------------------------------------------------
(* The member types of serialized regulatory elements *)

\* The member refers to a Linestring of the mesh.
RefersToLinestring(m) == \E l \in DOMAIN linestrings : m.ref = str(l)

\* C29: in the serialized mesh every member of a regulatory-element relation
\* whose id is a Linestring of the mesh (roles refers, ref_line, light_bulbs)
\* has member type "way", and a member has type "relation" only when its id is
\* not a linestring.
C29_LinestringMembersAreWays ==
    saved # NoCall =>
        \A r \in saved.regulatory_element :
            \A i \in 1..Len(r.member) :
                RefersToLinestring(r.member[i]) <=> r.member[i].type = "way"

----------------------------------------------------------------------------
(* The points that _get_link_points returns *)

\* The first and last point of both borders of the lanelets of the index.
IndexedCorners ==
    UNION { { linestrings[lanelets[odr2lanelet[s]].left].points[1],
              linestrings[lanelets[odr2lanelet[s]].right].points[1],
              Last(linestrings[lanelets[odr2lanelet[s]].left].points),
              Last(linestrings[lanelets[odr2lanelet[s]].right].points) } :
            s \in DOMAIN odr2lanelet }

Returned(r) == { r.pre[1], r.pre[2], r.succ[1], r.succ[2] } \ {None}

\* C30: each point that a call of _get_link_points returns, when it is not
\* None, is a point the mesh stored before the call and is a start point or an
\* end point of the lanelet of a segment that was converted before the call.
\* (The call reads the mesh, the index and the uid counter and writes none of
\* them.)
C30_LinkPointsStoredCorners ==
    [][ LaneDone => /\ Returned(link') \subseteq DOMAIN points
                    /\ Returned(link') \subseteq IndexedCorners ]_vars

\* A lane was converted after its call returned a start and an end point.
C30_Witness ==
    /\ segment \in DOMAIN odr2lanelet
    /\ link.pre[1] # None
    /\ link.succ[2] # None
    /\ Cardinality(Returned(link)) >= 3

====
